---- MODULE Spec2Model ----
(***************************************************************************)
(* The registry server of mds (src/src/mds-registry.c) with the client     *)
(* list it stores (src/src/libmdsserver/client-list.c), the linked list of *)
(* libmdsserver (linked-list.c) and the supervisor (mds.c).                *)
(*                                                                         *)
(* Strings are sequences of one-character strings, so that tokenising,     *)
(* number parsing and formatting are computed and not assumed.  A client   *)
(* ID (uint64_t) is the pair <<high, low>> of its two 32-bit halves.       *)
(***************************************************************************)
EXTENDS Integers, Sequences, FiniteSets, TLC

VARIABLES
    pc,           \* where the server process is: "loop", "acting", "returned", "exited", "crashed"
    reg_table,    \* hash_table_t reg_table: the entries in iteration order
    table_alive,  \* FALSE once hash_table_destroy has run on reg_table
    message_id,   \* int32_t message_id
    connected,    \* int connected
    errno,        \* the C errno
    received,     \* mds_message_t received: headers and payload of the last message read
    msg_alive,    \* FALSE once mds_message_destroy has run on received
    ra,           \* locals of the registry_action call in progress
    mutex,        \* reg_mutex: "free", "held" (by the server thread), "other" or "destroyed"
    r,            \* the value handle_message / list_registry returned last
    rc,           \* the value master_loop returned (-1: not returned)
    reexecing,    \* volatile sig_atomic_t reexecing
    terminating,  \* volatile sig_atomic_t terminating
    sent,         \* what full_send has written since the last message was read
    hist,         \* history: what the last handler was asked and did
    reg_cond,     \* reg_cond: whether it is initialised and the signals made on it
    other,        \* a second thread that calls list_registry: its position and locals
    clist,        \* a client_list_t used on its own, with the last call made on it
    llist,        \* a linked_list_t used on its own, with the last call made on it
    super,        \* the supervisor (mds.c): its position and the locals of its loop
    parser,       \* an mds_message_t fed from a byte stream, with the stream and what was delivered
    runtime       \* the runtime directory and the supervisors that pick a display index in it

vars == <<pc, reg_table, table_alive, message_id, connected, errno, received,
          msg_alive, ra, mutex, r, rc, reexecing, terminating, sent, hist,
          reg_cond, other, clist, llist, super, parser, runtime>>

\* What the registry server never touches.
lib == <<clist, llist, super, parser, runtime>>

----------------------------------------------------------------------------
(* Characters and C strings *)

NL == "LF"
NUL == "NUL"
Digits == <<"0", "1", "2", "3", "4", "5", "6", "7", "8", "9">>

IsDigit(c) == \E i \in 1..10 : Digits[i] = c
DigitVal(c) == (CHOOSE i \in 1..10 : Digits[i] = c) - 1

\* Width of size_t used for the pointer arithmetic of the tokeniser.
SizeModulus == 2^16
INT32_MAX == 2147483647

Min(a, b) == IF a < b THEN a ELSE b

\* Index of the first element of s at or after index i that equals c, 0 if none.
RECURSIVE IndexFrom(_, _, _)
IndexFrom(s, i, c) ==
    IF i > Len(s) THEN 0
    ELSE IF s[i] = c THEN i
    ELSE IndexFrom(s, i + 1, c)

\* atoll: the value of the leading decimal digits.
RECURSIVE AtollFrom(_, _, _)
AtollFrom(s, i, acc) ==
    IF i > Len(s) \/ ~IsDigit(s[i]) THEN acc
    ELSE AtollFrom(s, i + 1, acc * 10 + DigitVal(s[i]))

atoll(s) == AtollFrom(s, 1, 0)

\* printf("%i") / printf("%u") of a non-negative number.
RECURSIVE Decimal(_)
Decimal(n) ==
    IF n < 10 THEN <<Digits[n + 1]>>
    ELSE Decimal(n \div 10) \o <<Digits[(n % 10) + 1]>>

\* strchr(s, c) != NULL
strchr(s, c) == IndexFrom(s, 1, c) # 0

\* parse_client_id: split at the first ':' and read both halves with atoll.
\* The caller guarantees a ':' in str.
parse_client_id(str) ==
    LET colon == IndexFrom(str, 1, ":")
        client_high == SubSeq(str, 1, colon - 1)
        client_low == SubSeq(str, colon + 1, Len(str))
    IN  <<atoll(client_high), atoll(client_low)>>

----------------------------------------------------------------------------
(* client_list_t: [capacity, size, clients] *)

CLIENT_LIST_DEFAULT_INITIAL_CAPACITY == 8

RECURSIVE BitLength(_)
BitLength(v) == IF v = 0 THEN 0 ELSE 1 + BitLength(v \div 2)

\* value - 1, every bit below the highest set bit set, + 1 (value >= 1)
to_power_of_two(value) == (2 ^ BitLength(value - 1) - 1) + 1

client_list_create(capacity) ==
    LET cap == IF capacity = 0 THEN CLIENT_LIST_DEFAULT_INITIAL_CAPACITY ELSE capacity
    IN  [capacity |-> to_power_of_two(cap), size |-> 0, clients |-> <<>>]

\* client_list_destroy: the array is freed, the fields keep their values
client_list_destroy(this) == [this EXCEPT !.clients = <<>>]

\* client_list_add: [list, rc]; realloc_ok is whether a needed realloc succeeds
client_list_add(this, client, realloc_ok) ==
    IF this.size = this.capacity /\ ~realloc_ok
    THEN [list |-> this, rc |-> -1]
    ELSE [list |-> [capacity |-> IF this.size = this.capacity
                                 THEN this.capacity * 2 ELSE this.capacity,
                    size |-> this.size + 1,
                    clients |-> Append(this.clients, client)],
          rc |-> 0]

RemoveAt(s, i) == SubSeq(s, 1, i - 1) \o SubSeq(s, i + 1, Len(s))

\* client_list_remove without the memmove of the tail: everything from the
\* first occurrence on is dropped.
client_list_remove_truncating(this, client, realloc_ok) ==
    LET i == IndexFrom(this.clients, 1, client) IN
    IF i = 0 THEN this
    ELSE [capacity |-> this.capacity, size |-> i - 1,
          clients |-> SubSeq(this.clients, 1, i - 1)]

RECURSIVE LastIndex(_, _, _)
LastIndex(s, i, c) ==
    IF i = 0 THEN 0 ELSE IF s[i] = c THEN i ELSE LastIndex(s, i - 1, c)

\* client_list_remove searching from the end: the last occurrence goes.
client_list_remove_last(this, client, realloc_ok) ==
    LET i == LastIndex(this.clients, Len(this.clients), client) IN
    IF i = 0 THEN this
    ELSE LET size == this.size - 1 IN
         [capacity |-> IF size * 2 <= this.capacity
                       THEN IF realloc_ok THEN this.capacity \div 2
                            ELSE (this.capacity \div 2) * 2
                       ELSE this.capacity,
          size |-> size,
          clients |-> RemoveAt(this.clients, i)]

\* client_list_remove: the first occurrence goes, the tail moves down one slot,
\* and the capacity halves when size * 2 <= capacity (shifted back when realloc fails)
client_list_remove(this, client, realloc_ok) ==
    LET i == IndexFrom(this.clients, 1, client) IN
    IF i = 0 THEN this
    ELSE LET size == this.size - 1 IN
         [capacity |-> IF size * 2 <= this.capacity
                       THEN IF realloc_ok THEN this.capacity \div 2
                            ELSE (this.capacity \div 2) * 2
                       ELSE this.capacity,
          size |-> size,
          clients |-> RemoveAt(this.clients, i)]

\* client_list_clone: [list, rc]; the copy has the capacity, the size and the
\* first size clients of the original.
client_list_clone(this, malloc_ok) ==
    IF malloc_ok
    THEN [list |-> [capacity |-> this.capacity, size |-> this.size,
                    clients |-> SubSeq(this.clients, 1, this.size)],
          rc |-> 0]
    ELSE [list |-> [capacity |-> 0, size |-> 0, clients |-> <<>>], rc |-> -1]

\* The widths in bytes of the types that are marshalled (LP64).
SizeofInt == 4
SizeofSizeT == 8
SizeofUint64 == 8

CLIENT_LIST_T_VERSION == 0

\* A marshalled object is the sequence of the values written by buf_set_next
\* and memcpy, each with its width in bytes.
Cell(width, value) == [w |-> width, v |-> value]

RECURSIVE Bytes(_)
Bytes(data) == IF data = <<>> THEN 0 ELSE Head(data).w + Bytes(Tail(data))

\* client_list_marshal_size without the version.
client_list_marshal_size_unversioned(this) ==
    2 * SizeofSizeT + this.size * SizeofUint64

client_list_marshal_size(this) ==
    2 * SizeofSizeT + this.size * SizeofUint64 + SizeofInt

\* client_list_marshal copying the clients last to first.
client_list_marshal_reversed(this) ==
    <<Cell(SizeofInt, CLIENT_LIST_T_VERSION),
      Cell(SizeofSizeT, this.capacity), Cell(SizeofSizeT, this.size)>>
    \o [i \in 1..this.size |-> Cell(SizeofUint64, this.clients[this.size + 1 - i])]

client_list_marshal(this) ==
    <<Cell(SizeofInt, CLIENT_LIST_T_VERSION),
      Cell(SizeofSizeT, this.capacity), Cell(SizeofSizeT, this.size)>>
    \o [i \in 1..this.size |-> Cell(SizeofUint64, this.clients[i])]

\* client_list_unmarshal: the version is skipped, capacity and size are read,
\* and size clients are copied out of what follows.
client_list_unmarshal(data) ==
    LET size == data[3].v IN
    [capacity |-> data[2].v, size |-> size,
     clients |-> [i \in 1..size |-> data[3 + i].v]]

----------------------------------------------------------------------------
(* hash_table_t with string keys.  An entry is                             *)
(*   [key, key_live, findable, list, list_live]:                           *)
(* key is the command, list the client_list_t the value points to;         *)
(* key_live / list_live say whether that heap object has not been freed;   *)
(* findable says whether the entry sits in the bucket that string_hash     *)
(* gives its key, so that a lookup by string reaches it.                   *)

Entry(key, list, findable) ==
    [key |-> key, key_live |-> TRUE, findable |-> findable,
     list |-> list, list_live |-> TRUE]

\* Position of the entry a lookup of key reaches, 0 when there is none.
RECURSIVE FindFrom(_, _, _)
FindFrom(table, i, key) ==
    IF i > Len(table) THEN 0
    ELSE IF table[i].findable /\ table[i].key = key THEN i
    ELSE FindFrom(table, i + 1, key)

hash_table_get_entry(table, key) == FindFrom(table, 1, key)

hash_table_contains_key(table, key) == hash_table_get_entry(table, key) # 0

\* hash_table_put: [table, replaced]; the C function returns the previous
\* value when the key was present and 0 (with errno = 0) when it was not.
hash_table_put(table, key, list) ==
    LET i == hash_table_get_entry(table, key) IN
    IF i # 0
    THEN [table |-> [table EXCEPT ![i].list = list, ![i].list_live = TRUE],
          replaced |-> TRUE]
    ELSE [table |-> Append(table, Entry(key, list, TRUE)), replaced |-> FALSE]

hash_table_remove(table, key) ==
    LET i == hash_table_get_entry(table, key) IN
    IF i = 0 THEN table ELSE RemoveAt(table, i)

\* The commands that are keys of the table.
KeySet(table) == {table[i].key : i \in 1..Len(table)}

\* Number of occurrences of x in the sequence s.
RECURSIVE Count(_, _)
Count(s, x) ==
    IF s = <<>> THEN 0
    ELSE (IF Head(s) = x THEN 1 ELSE 0) + Count(Tail(s), x)

\* Number of occurrences of client in the lists stored for command.
RECURSIVE MultFrom(_, _, _, _)
MultFrom(table, i, command, client) ==
    IF i > Len(table) THEN 0
    ELSE (IF table[i].key = command /\ table[i].list_live
          THEN Count(table[i].list.clients, client) ELSE 0)
         + MultFrom(table, i + 1, command, client)

Multiplicity(table, command, client) == MultFrom(table, 1, command, client)

----------------------------------------------------------------------------
(* The registry operations.  Each returns [table, rc, errno], errno "same" *)
(* when the operation leaves errno alone.                                  *)

\* registry_action_add; alloc_ok is whether every allocation it makes succeeds
registry_action_add(table, has_key, command, client, alloc_ok) ==
    IF has_key
    THEN LET i == hash_table_get_entry(table, command)
             res == client_list_add(table[i].list, client, alloc_ok)
         IN  IF res.rc < 0
             THEN [table |-> table, rc |-> -1, errno |-> "ENOMEM"]
             ELSE [table |-> [table EXCEPT ![i].list = res.list],
                   rc |-> 0, errno |-> "same"]
    ELSE IF ~alloc_ok
         THEN [table |-> table, rc |-> -1, errno |-> "ENOMEM"]
         ELSE LET list == client_list_add(client_list_create(1), client, TRUE).list
                  put == hash_table_put(table, command, list)
                  n == Len(put.table)
              IN  IF ~put.replaced
                  \* hash_table_put(...) == 0: the list and the key are freed and
                  \* the entry just inserted stays in the table
                  THEN [table |-> [put.table EXCEPT
                                     ![n].list = client_list_destroy(list),
                                     ![n].list_live = FALSE,
                                     ![n].key_live = FALSE],
                        rc |-> -1, errno |-> "0"]
                  ELSE [table |-> put.table, rc |-> 0, errno |-> "0"]

\* registry_action_remove (the key is present)
registry_action_remove(table, command, client, realloc_ok) ==
    LET i == hash_table_get_entry(table, command)
        list == client_list_remove(table[i].list, client, realloc_ok)
    IN  IF list.size = 0
        THEN hash_table_remove(table, command)
        ELSE [table EXCEPT ![i].list = list]

\* registry_action_act: [table, wait_set, rc, errno]
registry_action_act(table, command, action, client, wait_set, alloc_ok) ==
    LET has_key == hash_table_contains_key(table, command) IN
    IF action = 1
    THEN LET res == registry_action_add(table, has_key, command, client, alloc_ok)
         IN  [table |-> res.table, wait_set |-> wait_set,
              rc |-> res.rc, errno |-> res.errno]
    ELSE IF action = -1 /\ has_key
    THEN [table |-> registry_action_remove(table, command, client, alloc_ok),
          wait_set |-> wait_set, rc |-> 0, errno |-> "same"]
    ELSE IF action = 0 /\ ~has_key
    THEN IF alloc_ok
         THEN [table |-> table, wait_set |-> wait_set \cup {command},
               rc |-> 0, errno |-> "0"]
         ELSE [table |-> table, wait_set |-> {}, rc |-> -1, errno |-> "ENOMEM"]
    ELSE [table |-> table, wait_set |-> wait_set, rc |-> 0, errno |-> "same"]

\* One turn of the loop of registry_action on the buffer payload (zero-based
\* position begin): [command, begin, payload].  tail is what follows the
\* buffer in memory up to the next NUL.
Tokenise(payload, begin, tail) ==
    LET end == IndexFrom(payload, begin + 1, NL) - 1
        len == (end - begin - 1) % SizeModulus
        nul == (begin + len) % SizeModulus
        written == IF nul + 1 \in 1..Len(payload)
                   THEN [payload EXCEPT ![nul + 1] = NUL] ELSE payload
        stop == IndexFrom(written, begin + 1, NUL)
    IN  [command |-> IF stop # 0 THEN SubSeq(written, begin + 1, stop - 1)
                     ELSE SubSeq(written, begin + 1, Len(written)) \o tail,
         begin |-> (begin + len + 1) % SizeModulus,
         payload |-> written]

----------------------------------------------------------------------------
(* handle_close_message *)

\* The sweep's treatment of entry j for one closed client.  st is
\* [table, keys, size, allocated, nalloc, status]; the allocation numbered
\* fail_at (0: none) fails.
CloseVisit(st, client, j, fail_at, shrink_ok) ==
    IF ~st.table[j].list_live
    THEN [st EXCEPT !.status = "crash"]
    ELSE
    LET list == client_list_remove(st.table[j].list, client, shrink_ok)
        swept == [st.table EXCEPT ![j].list = list]
        n1 == st.nalloc + (IF st.allocated THEN 0 ELSE 1)
        grow == Len(st.keys) = st.size
        n2 == n1 + (IF grow THEN 1 ELSE 0)
    IN  IF list.size # 0
        THEN [st EXCEPT !.table = swept]
        ELSE IF ~st.allocated /\ n1 = fail_at
        THEN [st EXCEPT !.table = swept, !.nalloc = n1, !.status = "fail"]
        ELSE IF grow /\ n2 = fail_at
        THEN [st EXCEPT !.table = swept, !.nalloc = n2, !.allocated = TRUE,
                        !.status = "fail"]
        ELSE [table |-> swept,
              keys |-> Append(st.keys, st.table[j].key),
              size |-> IF grow THEN st.size * 2 ELSE st.size,
              allocated |-> TRUE,
              nalloc |-> n2,
              status |-> "ok"]

\* The first loop: every `Client closed: ' header, every entry of the table.
RECURSIVE CloseSweep(_, _, _, _, _, _)
CloseSweep(st, headers, i, j, fail_at, shrink_ok) ==
    IF st.status # "ok" \/ i > Len(headers) THEN st
    ELSE IF headers[i].name # "Client closed" \/ j > Len(st.table)
    THEN CloseSweep(st, headers, i + 1, 1, fail_at, shrink_ok)
    ELSE CloseSweep(CloseVisit(st, parse_client_id(headers[i].value), j,
                               fail_at, shrink_ok),
                    headers, i, j + 1, fail_at, shrink_ok)

\* The second loop: [table, crashed]; hash_table_get_entry returns NULL for a
\* key it does not reach and the entry is dereferenced.
RECURSIVE CloseDelete(_, _, _)
CloseDelete(table, keys, i) ==
    IF i > Len(keys) THEN [table |-> table, crashed |-> FALSE]
    ELSE IF hash_table_get_entry(table, keys[i]) = 0
    THEN [table |-> table, crashed |-> TRUE]
    ELSE CloseDelete(hash_table_remove(table, keys[i]), keys, i + 1)

\* handle_close_message without its second loop: emptied lists stay in the table.
handle_close_message_keeping(table, headers, fail_at, shrink_ok) ==
    LET st == CloseSweep([table |-> table, keys |-> <<>>, size |-> 1,
                          allocated |-> FALSE, nalloc |-> 0, status |-> "ok"],
                         headers, 1, 1, fail_at, shrink_ok)
    IN  IF st.status = "crash"
        THEN [table |-> st.table, rc |-> 0, errno |-> "same", crashed |-> TRUE]
        ELSE IF st.status = "fail"
        THEN [table |-> st.table, rc |-> -1, errno |-> "ENOMEM", crashed |-> FALSE]
        ELSE [table |-> st.table, rc |-> 0, errno |-> "same", crashed |-> FALSE]

\* handle_close_message: [table, rc, errno, crashed]
handle_close_message(table, headers, fail_at, shrink_ok) ==
    LET st == CloseSweep([table |-> table, keys |-> <<>>, size |-> 1,
                          allocated |-> FALSE, nalloc |-> 0, status |-> "ok"],
                         headers, 1, 1, fail_at, shrink_ok)
        del == CloseDelete(st.table, st.keys, 1)
    IN  IF st.status = "crash"
        THEN [table |-> st.table, rc |-> 0, errno |-> "same", crashed |-> TRUE]
        ELSE IF st.status = "fail"
        THEN [table |-> st.table, rc |-> -1, errno |-> "ENOMEM", crashed |-> FALSE]
        ELSE [table |-> del.table, rc |-> 0, errno |-> "same",
              crashed |-> del.crashed]

----------------------------------------------------------------------------
(* handle_register_message *)

NULL == <<"NULL">>
ADD == <<"a", "d", "d">>
REMOVE == <<"r", "e", "m", "o", "v", "e">>
WAIT == <<"w", "a", "i", "t">>
LIST == <<"l", "i", "s", "t">>
REGISTER == <<"r", "e", "g", "i", "s", "t", "e", "r">>
ANONYMOUS == <<"0", ":", "0">>

H(name, value) == [name |-> name, value |-> value]

RegisterHeaders == {"Client ID", "Message ID", "Length", "Action"}

\* The header loop: the value of each of the four headers, NULL when absent;
\* the loop stops once all four are set.
RECURSIVE ScanHeaders(_, _, _)
ScanHeaders(headers, i, got) ==
    IF i > Len(headers) THEN got
    ELSE LET h == headers[i]
             next == IF h.name = "Client ID" THEN [got EXCEPT !.client_id = h.value]
                     ELSE IF h.name = "Message ID" THEN [got EXCEPT !.message_id = h.value]
                     ELSE IF h.name = "Length" THEN [got EXCEPT !.length = h.value]
                     ELSE IF h.name = "Action" THEN [got EXCEPT !.action = h.value]
                     ELSE got
         IN  IF /\ h.name \in RegisterHeaders
                /\ next.client_id # NULL /\ next.message_id # NULL
                /\ next.length # NULL /\ next.action # NULL
             THEN next
             ELSE ScanHeaders(headers, i + 1, next)

RegisterFields(headers) ==
    ScanHeaders(headers, 1, [client_id |-> NULL, message_id |-> NULL,
                             length |-> NULL, action |-> NULL])

\* The checks without the comparison of the sender with "0:0".
RegisterVerdict_anonymous_allowed(got) ==
    IF got.client_id = NULL THEN "anonymous"
    ELSE IF ~strchr(got.client_id, ":") THEN "no colon"
    ELSE IF got.length = NULL /\ (got.action = NULL \/ got.action # LIST) THEN "empty"
    ELSE IF got.message_id = NULL THEN "no message id"
    ELSE "valid"

\* The four checks made before anything is done.
RegisterVerdict(got) ==
    IF got.client_id = NULL \/ got.client_id = ANONYMOUS THEN "anonymous"
    ELSE IF ~strchr(got.client_id, ":") THEN "no colon"
    ELSE IF got.length = NULL /\ (got.action = NULL \/ got.action # LIST) THEN "empty"
    ELSE IF got.message_id = NULL THEN "no message id"
    ELSE "valid"

\* recv_action after `if (recv_action != NULL) recv_action = "add"' and the
\* branch the chain of strequals takes; "undefined" is strequals(NULL, ...).
RegisterDispatch(got) ==
    LET recv_action == IF got.action # NULL THEN ADD ELSE got.action IN
    IF recv_action = NULL THEN "undefined"
    ELSE IF recv_action = ADD THEN "add"
    ELSE IF recv_action = REMOVE THEN "remove"
    ELSE IF recv_action = WAIT THEN "wait"
    ELSE IF recv_action = LIST THEN "list"
    ELSE "invalid"

RegisterLength(got) == IF got.length # NULL THEN atoll(got.length) ELSE 0

\* handle_message: the handler the message goes to
IsRegister(headers) ==
    \E i \in 1..Len(headers) : headers[i] = H("Command", REGISTER)

----------------------------------------------------------------------------
(* list_registry *)

\* The payload without the newline behind the last key.
RECURSIVE ListPayload_unterminated(_, _)
ListPayload_unterminated(table, i) ==
    IF i > Len(table) THEN <<>>
    ELSE IF i = Len(table) THEN table[i].key
    ELSE table[i].key \o <<NL>> \o ListPayload_unterminated(table, i + 1)

RECURSIVE ListPayload(_, _)
ListPayload(table, i) ==
    IF i > Len(table) THEN <<>>
    ELSE table[i].key \o <<NL>> \o ListPayload(table, i + 1)

\* The header block sprintf writes behind the payload.
ListHeaders(recv_client_id, recv_message_id, id, ptr) ==
    <<H("To", recv_message_id),
      H("In response to", recv_client_id),
      H("Message ID", Decimal(id)),
      H("Length", Decimal(ptr))>>

\* The increment without the test for INT32_MAX, on a two's complement
\* int32_t: INT32_MAX + 1 comes out as INT32_MIN.
NextMessageId_unwrapped(id) == IF id = INT32_MAX THEN -INT32_MAX - 1 ELSE id + 1

NextMessageId(id) == IF id = INT32_MAX THEN 0 ELSE id + 1

\* list_registry: [rc, errno, sent, message_id, crashed]; sends_ok is the
\* number of full_send calls that succeed.
list_registry(table, recv_client_id, recv_message_id, id, alloc_ok, sends_ok) ==
    LET payload == ListPayload(table, 1)
        headers == ListHeaders(recv_client_id, recv_message_id, id, Len(payload))
        first == [part |-> "headers", headers |-> headers, bytes |-> <<>>,
                  complete |-> sends_ok >= 1]
        second == [part |-> "payload", headers |-> <<>>, bytes |-> payload,
                   complete |-> sends_ok >= 2]
    IN  IF ~alloc_ok
        THEN [rc |-> -1, errno |-> "ENOMEM", sent |-> <<>>, message_id |-> id,
              crashed |-> FALSE]
        ELSE IF \E i \in 1..Len(table) : ~table[i].key_live
        THEN [rc |-> 0, errno |-> "same", sent |-> <<>>, message_id |-> id,
              crashed |-> TRUE]
        ELSE IF sends_ok = 0
        THEN [rc |-> 1, errno |-> "EPIPE", sent |-> <<first>>,
              message_id |-> NextMessageId(id), crashed |-> FALSE]
        ELSE [rc |-> IF sends_ok >= 2 THEN 0 ELSE -1,
              errno |-> IF sends_ok >= 2 THEN "same" ELSE "EPIPE",
              sent |-> <<first, second>>,
              message_id |-> NextMessageId(id), crashed |-> FALSE]

----------------------------------------------------------------------------
(* Inputs *)

X == <<"1", ":", "1">>
Y == <<"1", ":", "2">>
Z == <<"2", ":", "7">>
NoColon == <<"1", "1">>
FortyTwo == <<"4", "2">>
NoPayload == <<"none">>

\* Payloads of register messages: command names, each closed by a newline.
Payloads == {<<>>, <<"a", "b", NL>>, <<"b", NL, "a", "b", NL>>}

\* What may follow the payload buffer in memory, up to the next NUL.
Tails == {<<>>, <<"a">>}

Opt(name, value) == IF value = NULL THEN <<>> ELSE <<H(name, value)>>

RegisterMessage(c, i, p, a) ==
    [headers |-> <<H("Command", REGISTER)>>
                 \o Opt("Client ID", c) \o Opt("Message ID", i)
                 \o (IF p = NoPayload THEN <<>> ELSE <<H("Length", Decimal(Len(p)))>>)
                 \o Opt("Action", a),
     payload |-> IF p = NoPayload THEN <<>> ELSE p]

\* Register messages: a sender and a message ID with every payload and every
\* action, and the same with the sender or the message ID wrong or missing.
RegisterMessages ==
    { RegisterMessage(X, FortyTwo, p, a) :
      p \in Payloads \cup {NoPayload},
      a \in {NULL, ADD, REMOVE, WAIT, LIST, <<"x">>} }
    \cup { RegisterMessage(c, FortyTwo, <<"a", "b", NL>>, ADD) :
           c \in {NULL, ANONYMOUS, NoColon} }
    \cup { RegisterMessage(X, NULL, <<"a", "b", NL>>, ADD),
           RegisterMessage(X, NULL, NoPayload, LIST) }

\* Messages without `Command: register': client-closed notices and one other.
OtherMessages ==
    { [headers |-> hs, payload |-> <<>>] :
      hs \in { <<H("Client closed", X)>>, <<H("Client closed", Y)>>,
               <<H("Client closed", X), H("Client closed", Y)>>,
               <<H("Command", <<"x">>)>> } }

\* The registry a previous image of the server may have marshalled: at most
\* one list for each of two commands, each list with one or two clients.
MarshalledLists ==
    { client_list_marshal(l) :
      l \in { [capacity |-> 1, size |-> 1, clients |-> <<<<1, 1>>>>],
              [capacity |-> 2, size |-> 2, clients |-> <<<<1, 1>>, <<1, 2>>>>],
              [capacity |-> 2, size |-> 2, clients |-> <<<<1, 1>>, <<1, 1>>>>] } }

MarshalledTables ==
    {<<>>}
    \cup { <<[command |-> c, list |-> l]>> : c \in {<<"a">>, <<"b">>}, l \in MarshalledLists }
    \cup { <<[command |-> <<"a">>, list |-> l1], [command |-> <<"b">>, list |-> l2]>> :
           l1 \in MarshalledLists, l2 \in MarshalledLists }

StateBuffers(ids) ==
    { [connected |-> TRUE, message_id |-> id, table |-> t] :
      id \in ids, t \in MarshalledTables }

----------------------------------------------------------------------------
(* Construction *)

\* marshal_server: connected, message_id and, for every entry of the table in
\* iteration order, the command and the marshalled client list.
marshal_server(conn, id, table) ==
    [connected |-> conn,
     message_id |-> id,
     table |-> [i \in 1..Len(table) |->
                  [command |-> table[i].key,
                   list |-> client_list_marshal(table[i].list)]]]

\* unmarshal_server: every entry is put into the table while the table still
\* hashes the key's address; lucky is the set of entries whose bucket is also
\* the one string_hash gives, the hash function installed afterwards.
unmarshal_server(buf, lucky) ==
    [connected |-> buf.connected,
     message_id |-> buf.message_id,
     reg_table |-> [i \in 1..Len(buf.table) |->
                      Entry(buf.table[i].command,
                            client_list_unmarshal(buf.table[i].list),
                            i \in lucky)]]

NoCall == [length |-> 0, action |-> 0, client |-> <<0, 0>>, begin |-> 0,
           tail |-> <<>>, wait_set |-> {}]

NoMessage == [headers |-> <<>>, payload |-> <<>>]

NoClient == <<-1, -1>>

\* The second thread outside list_registry.
\* The library objects and the supervisor while nobody uses them.
Unused == [pc |-> "unused"]

LibUnused ==
    /\ clist = Unused /\ llist = Unused /\ super = Unused
    /\ parser = Unused /\ runtime = Unused

NoThread == [pc |-> "idle", table |-> <<>>, counter |-> 0, sent |-> <<>>, r |-> 0,
             raced |-> FALSE, calls |-> 0]

NoAct == [action |-> 0, command |-> <<>>, client |-> NoClient, has_key |-> FALSE,
          alloc_ok |-> TRUE, rc |-> 0, table |-> <<>>]

\* The history variable: what the handler at work was given and what it did.
\*   from_empty   the server started with an empty registry
\*   ledger       <<command, client>> -> occurrences the adds and removes made
\*                so far should have left
\*   handler      "register", "close" or "list"
\*   verdict      what the checks of handle_register_message found
\*   dispatched   the branch handle_register_message took
\*   call         the arguments of list_registry and message_id at the call
\*   before       the registry when the handler started
\*   payload      the payload as it was read
\*   act          the last call of registry_action_act: its arguments, the
\*                registry before it and what it returned
\*   prev_closed  the client the previous message closed, if it closed just one
\*   waited       the commands a wait has found not registered and put in its wait_set
\*   lists        number of direct calls of list_registry
\*   fresh        the server was started by initialise_server, not restored
\*   reexecs      number of times the server has replaced its image
NoHistory(table) ==
    [from_empty |-> table = <<>>, ledger |-> <<>>, handler |-> "none",
     verdict |-> "none", dispatched |-> "none",
     call |-> [client_id |-> NULL, message_id |-> NULL, counter |-> 0],
     before |-> <<>>, payload |-> <<>>, act |-> NoAct, prev_closed |-> NoClient,
     waited |-> {}, lists |-> 0, fresh |-> FALSE, reexecs |-> 0]

ServerStarted(state, fresh) ==
    /\ pc = "loop"
    /\ reg_table = state.reg_table
    /\ table_alive = TRUE
    /\ message_id = state.message_id
    /\ connected = state.connected
    /\ errno = "0"
    /\ received = NoMessage
    /\ msg_alive = TRUE
    /\ ra = NoCall
    /\ mutex = "free"
    /\ r = 0
    /\ rc = -1
    /\ reexecing = FALSE
    /\ terminating = FALSE
    /\ sent = <<>>
    /\ hist = [NoHistory(state.reg_table) EXCEPT !.fresh = fresh]
    /\ reg_cond = [alive |-> TRUE, signals |-> 0]
    /\ other = NoThread

Started(state, fresh) == ServerStarted(state, fresh) /\ LibUnused

\* The registry server as initialise_server leaves it.
FreshServer ==
    ServerStarted([connected |-> TRUE, message_id |-> 2, reg_table |-> <<>>], TRUE)

\* After initialise_server, or after unmarshal_server and postinitialise_server
\* with a state buffer whose message ID is one of ids.
Constructed(ids) ==
    \/ Started([connected |-> TRUE, message_id |-> 2, reg_table |-> <<>>], TRUE)
    \/ \E buf \in StateBuffers(ids) : \E lucky \in SUBSET (1..Len(buf.table)) :
          Started(unmarshal_server(buf, lucky), FALSE)

Init == Constructed({2})

----------------------------------------------------------------------------
(* master_loop *)

Errno(e) == IF e = "same" THEN errno ELSE e

\* pthread_mutex_unlock left out: the mutex stays as it is.
pthread_mutex_unlock_skipped(m, owner) == m

\* pthread_mutex_unlock(&reg_mutex) by the thread that holds it as owner.
pthread_mutex_unlock(m, owner) == IF m = owner THEN "free" ELSE m

Dangling(table) ==
    \E i \in 1..Len(table) : ~table[i].key_live \/ ~table[i].list_live

\* The label fail: with the teardown done whatever rc and reexecing are.
Leave_tearing_down(code) ==
    /\ rc' = code
    /\ mutex' = "destroyed"
    /\ reg_cond' = [reg_cond EXCEPT !.alive = FALSE]
    /\ pc' \in (IF Dangling(reg_table) THEN {"exited", "crashed"} ELSE {"exited"})
    /\ reg_table' = <<>>
    /\ table_alive' = FALSE
    /\ msg_alive' = FALSE

\* The label fail: of master_loop, reached with rc = code.  Destroying a table
\* that holds a freed key or list frees it a second time.
Leave(code) ==
    /\ rc' = code
    /\ mutex' = "destroyed"
    /\ reg_cond' = [reg_cond EXCEPT !.alive = FALSE]
    /\ IF code # 0 \/ ~reexecing
       THEN /\ pc' \in (IF Dangling(reg_table) THEN {"exited", "crashed"} ELSE {"exited"})
            /\ reg_table' = <<>>
            /\ table_alive' = FALSE
            /\ msg_alive' = FALSE
       ELSE /\ pc' = "exited"
            /\ UNCHANGED <<reg_table, table_alive, msg_alive>>

\* A loop that does not look at the flags.
Reading_whatever_the_flags == pc = "loop"

\* The loop condition holds and mds_message_read is called.
Reading == pc = "loop" /\ ~reexecing /\ ~terminating

\* registry_action up to the loop: the terminating newline is stored behind
\* the payload and the mutex is taken.
registry_action_enter(message, length, action, recv_client_id, alloc_ok, tail) ==
    IF ~alloc_ok
    THEN [pc |-> "returned", received |-> message, ra |-> NoCall, mutex |-> mutex,
          r |-> -1, errno |-> "ENOMEM"]
    ELSE [pc |-> "acting",
          received |-> [message EXCEPT !.payload =
                          IF length = Len(message.payload)
                          THEN Append(message.payload, NL)
                          ELSE IF length < Len(message.payload)
                          THEN [message.payload EXCEPT ![length + 1] = NL]
                          ELSE message.payload],
          ra |-> [length |-> length, action |-> action,
                  client |-> IF action # 0 THEN parse_client_id(recv_client_id)
                             ELSE <<0, 0>>,
                  begin |-> 0, tail |-> tail, wait_set |-> {}],
          mutex |-> "held", r |-> r, errno |-> errno]

ActionCode(name) == IF name = "add" THEN 1 ELSE IF name = "remove" THEN -1 ELSE 0

\* mds_message_read returns 0 with a message that has `Command: register':
\* handle_register_message.  undefined is what strequals(NULL, "add") does.
ReadRegister(m) ==
    /\ Reading
    /\ LET got == RegisterFields(m.headers)
           verdict == RegisterVerdict(got)
           valid == verdict = "valid"
       IN  \E undefined \in (IF valid /\ RegisterDispatch(got) = "undefined"
                             THEN {"crash", "add"} ELSE {"none"}) :
           LET branch == IF RegisterDispatch(got) = "undefined" THEN undefined
                         ELSE RegisterDispatch(got)
               acts == valid /\ branch \in {"add", "remove", "wait"}
               lists == valid /\ branch = "list"
           IN
           \E alloc_ok \in (IF acts \/ lists THEN BOOLEAN ELSE {TRUE}),
              tail \in (IF acts THEN Tails ELSE {<<>>}),
              sends_ok \in (IF lists THEN 0..2 ELSE {2}) :
           LET enter == registry_action_enter(m, RegisterLength(got), ActionCode(branch),
                                              got.client_id, alloc_ok, tail)
               list == list_registry(reg_table, got.client_id, got.message_id,
                                     message_id, alloc_ok, sends_ok)
           IN
           /\ (acts /\ alloc_ok) => mutex = "free"
           /\ hist' = [hist EXCEPT !.handler = "register", !.verdict = verdict,
                                   !.dispatched = IF valid THEN branch ELSE "rejected",
                                   !.call = [client_id |-> got.client_id,
                                             message_id |-> got.message_id,
                                             counter |-> message_id],
                                   !.before = reg_table,
                                   !.payload = m.payload]
           /\ IF ~valid \/ branch = "invalid"
              THEN /\ pc' = "returned" /\ r' = 0 /\ received' = m /\ sent' = <<>>
                   /\ UNCHANGED <<ra, mutex, errno, message_id>>
              ELSE IF branch = "crash"
              THEN /\ pc' = "crashed" /\ received' = m /\ sent' = <<>>
                   /\ UNCHANGED <<ra, mutex, errno, message_id, r>>
              ELSE IF branch = "list"
              THEN /\ pc' = IF list.crashed THEN "crashed" ELSE "returned"
                   /\ r' = list.rc /\ errno' = Errno(list.errno)
                   /\ sent' = list.sent /\ message_id' = list.message_id
                   /\ received' = m
                   /\ UNCHANGED <<ra, mutex>>
              ELSE /\ pc' = enter.pc /\ received' = enter.received /\ ra' = enter.ra
                   /\ mutex' = enter.mutex /\ r' = enter.r /\ errno' = enter.errno
                   /\ sent' = <<>>
                   /\ UNCHANGED message_id
    /\ UNCHANGED <<reg_table, table_alive, connected, msg_alive, rc, reexecing,
                   terminating, reg_cond, other>>
    /\ UNCHANGED lib

\* What the sequence of add and remove operations so far should have left.
Ledger(ledger, command, action, client) ==
    LET k == <<command, client>>
        old == IF k \in DOMAIN ledger THEN ledger[k] ELSE 0
        new == IF action = 1 THEN old + 1
               ELSE IF action = -1 /\ old > 0 THEN old - 1 ELSE old
    IN  IF action = 0 THEN ledger
        ELSE [x \in DOMAIN ledger \cup {k} |-> IF x = k THEN new ELSE ledger[x]]

\* One turn of the loop of registry_action.
RegistryActionTurn(alloc_ok) ==
    /\ pc = "acting"
    /\ ra.begin < ra.length
    /\ LET tok == Tokenise(received.payload, ra.begin, ra.tail)
           res == registry_action_act(reg_table, tok.command, ra.action, ra.client,
                                      ra.wait_set, alloc_ok)
       IN  /\ received' = [received EXCEPT !.payload = tok.payload]
           /\ reg_table' = res.table
           /\ errno' = Errno(res.errno)
           /\ hist' = [hist EXCEPT
                         !.ledger = IF alloc_ok
                                    THEN Ledger(@, tok.command, ra.action, ra.client)
                                    ELSE @,
                         !.act = [action |-> ra.action, command |-> tok.command,
                                  client |-> ra.client,
                                  has_key |-> hash_table_contains_key(reg_table, tok.command),
                                  alloc_ok |-> alloc_ok, rc |-> res.rc,
                                  table |-> reg_table],
                         !.waited = IF ra.action = 0 /\ res.rc = 0
                                    THEN @ \cup res.wait_set ELSE @]
           /\ IF res.rc # 0
              THEN /\ pc' = "returned" /\ r' = -1 /\ ra' = NoCall
                   /\ mutex' = pthread_mutex_unlock(mutex, "held")
              ELSE /\ ra' = [ra EXCEPT !.begin = tok.begin, !.wait_set = res.wait_set]
                   /\ UNCHANGED <<pc, r, mutex>>
    /\ UNCHANGED <<table_alive, message_id, connected, msg_alive, rc, reexecing,
                   terminating, sent, reg_cond, other>>
    /\ UNCHANGED lib

\* The loop of registry_action is over: unlock and return 0.
RegistryActionReturn ==
    /\ pc = "acting"
    /\ ra.begin >= ra.length
    /\ pc' = "returned" /\ r' = 0 /\ ra' = NoCall
    /\ mutex' = pthread_mutex_unlock(mutex, "held")
    /\ UNCHANGED <<reg_table, table_alive, message_id, connected, errno, received,
                   msg_alive, rc, reexecing, terminating, sent, hist, reg_cond, other>>
    /\ UNCHANGED lib

\* mds_message_read returns 0 with a message without `Command: register':
\* handle_close_message.
ReadOther(m, fail_at, shrink_ok) ==
    /\ Reading
    /\ LET res == handle_close_message(reg_table, m.headers, fail_at, shrink_ok)
       IN  /\ pc' = IF res.crashed THEN "crashed" ELSE "returned"
           /\ reg_table' = res.table
           /\ r' = res.rc
           /\ errno' = Errno(res.errno)
    /\ received' = m
    /\ sent' = <<>>
    /\ hist' = [hist EXCEPT !.handler = "close", !.verdict = "none",
                            !.dispatched = "none", !.before = reg_table,
                            !.payload = m.payload, !.act = NoAct]
    /\ other' = IF mutex = "other" THEN [other EXCEPT !.raced = TRUE] ELSE other
    /\ UNCHANGED <<table_alive, message_id, connected, msg_alive, ra, mutex, rc,
                   reexecing, terminating, reg_cond>>
    /\ UNCHANGED lib

\* The clients the `Client closed: ' headers of a message name, in order.
RECURSIVE ClosedClients(_, _)
ClosedClients(headers, i) ==
    IF i > Len(headers) THEN <<>>
    ELSE (IF headers[i].name = "Client closed"
          THEN <<parse_client_id(headers[i].value)>> ELSE <<>>)
         \o ClosedClients(headers, i + 1)

\* The history once the message has been consumed.
Consumed(h) ==
    [NoHistory(<<>>) EXCEPT
       !.from_empty = h.from_empty, !.ledger = h.ledger, !.lists = h.lists,
       !.waited = h.waited, !.fresh = h.fresh, !.reexecs = h.reexecs,
       !.prev_closed = IF h.handler = "close" /\ Len(ClosedClients(received.headers, 1)) = 1
                       THEN ClosedClients(received.headers, 1)[1] ELSE NoClient]

\* #define reconnect_to_display() -1
reconnect_to_display == -1

\* The loop body from `lost connection to server.' on: the parser is destroyed
\* and initialised again, connected is cleared, and the loop goes on only when
\* reconnect_to_display() returns zero.
Reconnect(code) ==
    /\ received' = NoMessage
    /\ connected' = (reconnect_to_display = 0)
    /\ IF reconnect_to_display # 0
       THEN Leave(1) /\ r' = code /\ UNCHANGED <<sent, hist>>
       ELSE /\ pc' = "loop" /\ r' = 0 /\ sent' = <<>> /\ hist' = Consumed(hist)
            /\ UNCHANGED <<reg_table, table_alive, msg_alive, mutex, rc, reg_cond>>

\* The loop body after handle_message has returned r; on `continue' the
\* message is consumed and its slot recycled for the next read.
MasterLoopReturned ==
    /\ pc = "returned"
    /\ IF r = 0 \/ (r # -2 /\ errno = "EINTR")
       THEN /\ pc' = "loop"
            /\ received' = NoMessage
            /\ r' = 0 /\ sent' = <<>> /\ hist' = Consumed(hist)
            /\ UNCHANGED <<reg_table, table_alive, msg_alive, mutex, rc, connected,
                           reg_cond>>
       ELSE IF r = -2 \/ errno # "ECONNRESET"
       THEN /\ Leave(1)
            /\ UNCHANGED <<received, connected, r, sent, hist>>
       ELSE Reconnect(r)
    /\ UNCHANGED <<message_id, errno, ra, reexecing, terminating, other>>
    /\ UNCHANGED lib

\* mds_message_read fails: interrupted, connection reset, another error, or a
\* corrupt message (-2).
ReadFails(how) ==
    /\ Reading
    /\ errno' = IF how = "corrupt" THEN errno ELSE how
    /\ IF how = "EINTR"
       THEN UNCHANGED <<pc, reg_table, table_alive, msg_alive, mutex, rc, received,
                        connected, r, reg_cond, sent, hist>>
       ELSE IF how = "ECONNRESET"
       THEN Reconnect(-1)
       ELSE /\ r' = IF how = "corrupt" THEN -2 ELSE -1
            /\ Leave(1)
            /\ UNCHANGED <<received, connected, sent, hist>>
    /\ UNCHANGED <<message_id, ra, reexecing, terminating, other>>
    /\ UNCHANGED lib

\* The loop condition fails: rc = 0.
LoopEnds ==
    /\ pc = "loop"
    /\ reexecing \/ terminating
    /\ Leave(0)
    /\ UNCHANGED <<message_id, connected, errno, received, ra, r, reexecing,
                   terminating, sent, hist, other>>
    /\ UNCHANGED lib

\* A signal sets one of the two flags; only the loop condition reads them.
Signal(flag) ==
    /\ pc = "loop"
    /\ IF flag = "reexecing"
       THEN reexecing' = TRUE /\ UNCHANGED terminating
       ELSE terminating' = TRUE /\ UNCHANGED reexecing
    /\ ~(IF flag = "reexecing" THEN reexecing ELSE terminating)
    /\ UNCHANGED <<pc, reg_table, table_alive, message_id, connected, errno, received,
                   msg_alive, ra, mutex, r, rc, sent, hist, reg_cond, other>>
    /\ UNCHANGED lib

MaxCloseAllocations == 3
MaxListCalls == 2

Next ==
    \/ \E m \in RegisterMessages : ReadRegister(m)
    \/ \E alloc_ok \in BOOLEAN : RegistryActionTurn(alloc_ok)
    \/ RegistryActionReturn
    \/ \E m \in OtherMessages, fail_at \in 0..MaxCloseAllocations, shrink_ok \in BOOLEAN :
          ReadOther(m, fail_at, shrink_ok)
    \/ MasterLoopReturned
    \/ \E how \in {"EINTR", "ECONNRESET", "EIO", "corrupt"} : ReadFails(how)
    \/ LoopEnds
    \/ \E flag \in {"reexecing", "terminating"} : Signal(flag)

Spec == Init /\ [][Next]_vars

\* list_registry called with the registry as the loop holds it between two
\* messages (handle_register_message never reaches its call).
CallListRegistry(recv_client_id, recv_message_id, alloc_ok, sends_ok) ==
    /\ Reading
    /\ hist.lists < MaxListCalls
    /\ LET list == list_registry(reg_table, recv_client_id, recv_message_id,
                                 message_id, alloc_ok, sends_ok)
       IN  /\ pc' = IF list.crashed THEN "crashed" ELSE "listed"
           /\ r' = list.rc
           /\ errno' = Errno(list.errno)
           /\ sent' = list.sent
           /\ message_id' = list.message_id
    /\ hist' = [hist EXCEPT !.handler = "list", !.verdict = "none",
                            !.dispatched = "none", !.lists = @ + 1,
                            !.before = reg_table,
                            !.call = [client_id |-> recv_client_id,
                                      message_id |-> recv_message_id,
                                      counter |-> message_id]]
    /\ UNCHANGED <<reg_table, table_alive, connected, received, msg_alive, ra, mutex,
                   rc, reexecing, terminating, reg_cond, other>>
    /\ UNCHANGED lib

\* The caller of list_registry goes on.
ListReturned ==
    /\ pc = "listed"
    /\ pc' = "loop"
    /\ r' = 0 /\ sent' = <<>> /\ hist' = Consumed(hist)
    /\ UNCHANGED <<reg_table, table_alive, message_id, connected, errno, received,
                   msg_alive, ra, mutex, rc, reexecing, terminating, reg_cond, other>>
    /\ UNCHANGED lib

InitList == Constructed({2, INT32_MAX})

\* The registry changes by the closes the bus delivers and is listed in between.
NextList ==
    \/ \E m \in OtherMessages, fail_at \in 0..MaxCloseAllocations, shrink_ok \in BOOLEAN :
          ReadOther(m, fail_at, shrink_ok)
    \/ MasterLoopReturned
    \/ \E c \in {X, Z}, alloc_ok \in BOOLEAN, sends_ok \in 0..2 :
          CallListRegistry(c, FortyTwo, alloc_ok, sends_ok)
    \/ ListReturned

SpecList == InitList /\ [][NextList]_vars

----------------------------------------------------------------------------
(* initialise_server and full_send *)

\* The first message with a Length header that is one short of its payload.
InterceptMessage_short ==
    <<"C", "o", "m", "m", "a", "n", "d", ":", " ", "i", "n", "t", "e",
      "r", "c", "e", "p", "t", NL, "M", "e", "s", "s", "a", "g", "e",
      " ", "I", "D", ":", " ", "0", NL, "L", "e", "n", "g", "t", "h",
      ":", " ", "3", "1", NL, NL, "C", "o", "m", "m", "a", "n", "d",
      ":", " ", "r", "e", "g", "i", "s", "t", "e", "r", NL, "C", "l",
      "i", "e", "n", "t", " ", "c", "l", "o", "s", "e", "d", NL>>

\* The two messages of the string literal `message' of initialise_server.
InterceptMessage ==
    <<"C", "o", "m", "m", "a", "n", "d", ":", " ", "i", "n", "t", "e",
      "r", "c", "e", "p", "t", NL, "M", "e", "s", "s", "a", "g", "e",
      " ", "I", "D", ":", " ", "0", NL, "L", "e", "n", "g", "t", "h",
      ":", " ", "3", "2", NL, NL, "C", "o", "m", "m", "a", "n", "d",
      ":", " ", "r", "e", "g", "i", "s", "t", "e", "r", NL, "C", "l",
      "i", "e", "n", "t", " ", "c", "l", "o", "s", "e", "d", NL>>

ReregisterMessage ==
    <<"C", "o", "m", "m", "a", "n", "d", ":", " ", "r", "e", "r", "e",
      "g", "i", "s", "t", "e", "r", NL, "M", "e", "s", "s", "a", "g",
      "e", " ", "I", "D", ":", " ", "1", NL, NL>>

HandshakeMessage == InterceptMessage \o ReregisterMessage

\* The server before initialise_server: preinitialise_server has made the
\* mutex and the condition variable, nothing else exists yet.
InitStart ==
    /\ pc = "initialising"
    /\ reg_table = <<>>
    /\ table_alive = FALSE
    /\ message_id = 2
    /\ connected = TRUE
    /\ errno = "0"
    /\ received = NoMessage
    /\ msg_alive = FALSE
    /\ ra = NoCall
    /\ mutex = "free"
    /\ r = 0
    /\ rc = -1
    /\ reexecing = FALSE
    /\ terminating = FALSE
    /\ sent = <<>>
    /\ hist = [NoHistory(<<>>) EXCEPT !.fresh = TRUE]
    /\ reg_cond = [alive |-> TRUE, signals |-> 0]
    /\ other = NoThread
    /\ LibUnused

\* The bytes of the handshake that have been written to the socket.
Written == IF sent = <<>> THEN <<>> ELSE sent[1].bytes

\* The totals at which a send_message call may stop short.
SendStops == {1, Len(InterceptMessage) - 1, Len(InterceptMessage),
              Len(InterceptMessage) + 1}

\* One turn of the loop of full_send in initialise_server: send_message
\* writes n of the bytes that are left and leaves errno as e.  When the last
\* byte is out full_send returns 0 and initialise_server makes the table and
\* the parser; created is whether hash_table_create_tuned succeeds.
InitialiseSend(n, e, created) ==
    /\ pc = "initialising"
    /\ LET length == Len(HandshakeMessage) - Len(Written)
           bytes == SubSeq(HandshakeMessage, 1, Len(Written) + n)
       IN  /\ n \in 0..length
           /\ n > 0 => (Len(Written) + n) \in SendStops \cup {Len(HandshakeMessage)}
           /\ errno' = IF n = length /\ ~created THEN "ENOMEM" ELSE Errno(e)
           /\ sent' = <<[part |-> "handshake", headers |-> <<>>, bytes |-> bytes,
                          complete |-> n = length]>>
           /\ IF n < length /\ Errno(e) # "EINTR"
              THEN /\ pc' = "failed" /\ rc' = 1
                   /\ UNCHANGED <<table_alive, msg_alive>>
              ELSE IF n < length
              THEN UNCHANGED <<pc, rc, table_alive, msg_alive>>
              ELSE IF ~created
              THEN /\ pc' = "failed" /\ rc' = 1
                   /\ UNCHANGED <<table_alive, msg_alive>>
              ELSE /\ pc' = "loop" /\ table_alive' = TRUE /\ msg_alive' = TRUE
                   /\ UNCHANGED rc
    /\ UNCHANGED <<reg_table, message_id, connected, received, ra, mutex, r,
                   reexecing, terminating, hist, reg_cond, other>>
    /\ UNCHANGED lib

NextStart ==
    \/ \E n \in 0..Len(HandshakeMessage), e \in {"same", "EINTR", "EPIPE"},
          created \in BOOLEAN : InitialiseSend(n, e, created)
    \/ Next

SpecStart == InitStart /\ [][NextStart]_vars

----------------------------------------------------------------------------
(* The wait action.  handle_register_message never reaches the call        *)
(* registry_action(length, 0, ...) it has for `Action: wait'; here the     *)
(* call is made as that line makes it.                                     *)

\* A wait for one command, with and without the newline behind the name,
\* and the adds that may follow it.
WaitMessages ==
    { RegisterMessage(X, FortyTwo, p, WAIT) : p \in {<<"a", "b">>, <<"a", "b", NL>>} }

AddMessages ==
    { RegisterMessage(Y, FortyTwo, p, ADD) : p \in {<<"a", "b">>, <<"a", "b", NL>>} }

CallRegistryActionWait(m, alloc_ok, tail) ==
    /\ Reading
    /\ mutex = "free"
    /\ LET got == RegisterFields(m.headers)
           enter == registry_action_enter(m, RegisterLength(got), 0, got.client_id,
                                          alloc_ok, tail)
       IN  /\ RegisterVerdict(got) = "valid"
           /\ pc' = enter.pc /\ received' = enter.received /\ ra' = enter.ra
           /\ mutex' = enter.mutex /\ r' = enter.r /\ errno' = enter.errno
           /\ hist' = [hist EXCEPT !.handler = "register", !.verdict = "valid",
                                   !.dispatched = "wait",
                                   !.call = [client_id |-> got.client_id,
                                             message_id |-> got.message_id,
                                             counter |-> message_id],
                                   !.before = reg_table,
                                   !.payload = m.payload]
    /\ sent' = <<>>
    /\ UNCHANGED <<reg_table, table_alive, message_id, connected, msg_alive, rc,
                   reexecing, terminating, reg_cond, other>>
    /\ UNCHANGED lib

MaxClients == 3

\* An add is read while no list has reached MaxClients clients and no pair
\* has been added MaxClients times.
ReadAdd(m) ==
    /\ \A i \in 1..Len(reg_table) : reg_table[i].list.size < MaxClients
    /\ \A k \in DOMAIN hist.ledger : hist.ledger[k] < MaxClients
    /\ ReadRegister(m)

NextWait ==
    \/ \E m \in WaitMessages, alloc_ok \in BOOLEAN, tail \in Tails :
          CallRegistryActionWait(m, alloc_ok, tail)
    \/ \E m \in AddMessages : ReadAdd(m)
    \/ \E alloc_ok \in BOOLEAN : RegistryActionTurn(alloc_ok)
    \/ RegistryActionReturn
    \/ MasterLoopReturned

\* The server thread is scheduled as long as it can take a step.
SpecWait == Init /\ [][NextWait]_vars /\ WF_vars(NextWait)

\* A fresh server, or one restored with at most one command in its table
\* and its counter at 2 or at INT32_MAX.
InitCounter ==
    \/ Started([connected |-> TRUE, message_id |-> 2, reg_table |-> <<>>], TRUE)
    \/ \E buf \in StateBuffers({2, INT32_MAX}) :
          /\ Len(buf.table) <= 1
          /\ Started(unmarshal_server(buf, 1..Len(buf.table)), FALSE)

\* The bus delivers adds and closes, and the registry is listed in between:
\* every operation of the server that runs to its end.
NextCounter ==
    \/ NextList
    \/ \E m \in AddMessages : ReadAdd(m)
    \/ \E alloc_ok \in BOOLEAN : RegistryActionTurn(alloc_ok)
    \/ RegistryActionReturn

SpecCounter == InitCounter /\ [][NextCounter]_vars

----------------------------------------------------------------------------
(* A second thread.  The registry has a mutex because other threads may    *)
(* call into it; here one other thread calls list_registry, in the steps   *)
(* that its locking makes: up to the lock, the loop over the table up to   *)
(* the unlock, and the two sends.                                          *)

MaxOtherCalls == 1

\* list_registry up to pthread_mutex_lock; without memory for the send
\* buffer it returns before it locks.
OtherListEnter(alloc_ok) ==
    /\ other.pc = "idle" /\ other.calls < MaxOtherCalls
    /\ pc \notin {"exited", "crashed"}
    /\ IF alloc_ok
       THEN /\ mutex = "free"
            /\ mutex' = "other"
            /\ other' = [other EXCEPT !.pc = "building", !.calls = @ + 1]
       ELSE /\ other' = [other EXCEPT !.pc = "returned", !.r = -1, !.calls = @ + 1]
            /\ UNCHANGED mutex
    /\ UNCHANGED <<pc, reg_table, table_alive, message_id, connected, errno, received,
                   msg_alive, ra, r, rc, reexecing, terminating, sent, hist, reg_cond>>
    /\ UNCHANGED lib

\* The loop over reg_table, the sprintf, the increment of message_id and the
\* unlock.  When the table was changed or destroyed while the loop was at
\* work, the loop has read what a concurrent write leaves: anything.
OtherListBuild(alloc_ok) ==
    /\ other.pc = "building"
    /\ mutex' = pthread_mutex_unlock(mutex, "other")
    /\ IF alloc_ok
       THEN /\ message_id' = NextMessageId(message_id)
            /\ \E next \in (IF other.raced \/ ~table_alive
                             THEN {"sending", "crashed"} ELSE {"sending"}) :
                  other' = [other EXCEPT !.pc = next, !.table = reg_table,
                                         !.counter = message_id, !.raced = FALSE]
       ELSE /\ other' = [other EXCEPT !.pc = "returned", !.r = -1, !.raced = FALSE]
            /\ UNCHANGED message_id
    /\ UNCHANGED <<pc, reg_table, table_alive, connected, errno, received,
                   msg_alive, ra, r, rc, reexecing, terminating, sent, hist, reg_cond>>
    /\ UNCHANGED lib

\* The two calls of full_send.
OtherListSend(sends_ok) ==
    /\ other.pc = "sending"
    /\ LET list == list_registry(other.table, Z, FortyTwo, other.counter, TRUE, sends_ok)
       IN  other' = [other EXCEPT !.pc = IF list.crashed THEN "crashed" ELSE "returned",
                                  !.sent = list.sent, !.r = list.rc]
    /\ UNCHANGED <<pc, reg_table, table_alive, message_id, connected, errno, received,
                   msg_alive, ra, mutex, r, rc, reexecing, terminating, sent, hist,
                   reg_cond>>
    /\ UNCHANGED lib

\* The caller on the second thread goes on.
OtherListReturned ==
    /\ other.pc = "returned"
    /\ other' = [NoThread EXCEPT !.calls = other.calls]
    /\ UNCHANGED <<pc, reg_table, table_alive, message_id, connected, errno, received,
                   msg_alive, ra, mutex, r, rc, reexecing, terminating, sent, hist,
                   reg_cond>>
    /\ UNCHANGED lib

CloseMessages ==
    { [headers |-> <<H("Client closed", c)>>, payload |-> <<>>] : c \in {X, Y} }

\* A fresh server, or one restored with both commands findable.
InitThreads ==
    \/ Started([connected |-> TRUE, message_id |-> 2, reg_table |-> <<>>], TRUE)
    \/ \E buf \in StateBuffers({2}) :
          /\ Len(buf.table) = 2
          /\ client_list_unmarshal(buf.table[1].list).size = 1
          /\ Started(unmarshal_server(buf, {1, 2}), FALSE)

NextThreads ==
    \/ \E m \in AddMessages : ReadAdd(m)
    \/ \E alloc_ok \in BOOLEAN : RegistryActionTurn(alloc_ok)
    \/ RegistryActionReturn
    \/ \E m \in CloseMessages : ReadOther(m, 0, TRUE)
    \/ MasterLoopReturned
    \/ \E alloc_ok \in BOOLEAN : OtherListEnter(alloc_ok)
    \/ \E alloc_ok \in BOOLEAN : OtherListBuild(alloc_ok)
    \/ \E sends_ok \in 0..2 : OtherListSend(sends_ok)
    \/ OtherListReturned

SpecThreads == InitThreads /\ [][NextThreads]_vars

----------------------------------------------------------------------------
(* Re-exec: master_loop has returned 0 with reexecing set, marshal_server   *)
(* writes the state and destroys the table and the parser, the new image    *)
(* makes the mutex again and unmarshal_server reads the state back.         *)

MaxReexecs == 1

\* malloc_ok is whether every allocation of unmarshal_server succeeds (it
\* calls abort() otherwise); lucky as for unmarshal_server.
Reexec(malloc_ok) ==
    /\ pc = "exited" /\ rc = 0 /\ reexecing /\ table_alive
    /\ ~Dangling(reg_table)
    /\ hist.reexecs < MaxReexecs
    /\ \E lucky \in SUBSET (1..Len(reg_table)) :
       LET buf == marshal_server(connected, message_id, reg_table)
           new == unmarshal_server(buf, lucky)
       IN  /\ connected' = new.connected
           /\ message_id' = new.message_id
           /\ IF malloc_ok
              THEN /\ pc' = "loop" /\ reg_table' = new.reg_table
                   /\ table_alive' = TRUE /\ msg_alive' = TRUE
              ELSE /\ pc' = "crashed" /\ reg_table' = <<>>
                   /\ table_alive' = FALSE /\ msg_alive' = FALSE
           /\ hist' = [NoHistory(new.reg_table) EXCEPT !.reexecs = hist.reexecs + 1]
    /\ errno' = IF malloc_ok THEN "0" ELSE "ENOMEM"
    /\ received' = NoMessage /\ ra' = NoCall /\ sent' = <<>>
    /\ mutex' = "free" /\ reg_cond' = [alive |-> TRUE, signals |-> 0]
    /\ r' = 0 /\ rc' = -1
    /\ reexecing' = FALSE /\ terminating' = FALSE
    /\ UNCHANGED <<other, lib>>

NextReexec ==
    \/ \E m \in AddMessages : ReadAdd(m)
    \/ \E alloc_ok \in BOOLEAN : RegistryActionTurn(alloc_ok)
    \/ RegistryActionReturn
    \/ \E m \in CloseMessages : ReadOther(m, 0, TRUE)
    \/ MasterLoopReturned
    \/ LoopEnds
    \/ \E flag \in {"reexecing", "terminating"} : Signal(flag)
    \/ \E malloc_ok \in BOOLEAN : Reexec(malloc_ok)

SpecReexec == Init /\ [][NextReexec]_vars

----------------------------------------------------------------------------------------------------------------------------------------
(* A client list on its own: created, then added to, removed from, cloned   *)
(* and marshalled and unmarshalled, in any order.                           *)

MaxListSize == 5

\* The clients put into the list.
ListClients == {<<1, 1>>, <<1, 2>>}

\* The capacities asked of client_list_create: the default, what
\* registry_action_add asks for, and one that is not a power of two.
CreateCapacities == {0, 1, 3}

Call(op, arg, before, ret) == [op |-> op, arg |-> arg, before |-> before, rc |-> ret]

InitClientList == FreshServer /\ LibUnused

ClientListCreate(capacity, malloc_ok) ==
    /\ clist.pc = "unused"
    /\ clist' = [pc |-> IF malloc_ok THEN "live" ELSE "failed",
                 list |-> client_list_create(capacity),
                 last |-> Call("create", capacity, client_list_create(capacity),
                               IF malloc_ok THEN 0 ELSE -1)]
    /\ UNCHANGED <<pc, reg_table, table_alive, message_id, connected, errno, received,
                   msg_alive, ra, mutex, r, rc, reexecing, terminating, sent, hist,
                   reg_cond, other, llist, super,
                   parser, runtime>>

ClientListAdd(client, realloc_ok) ==
    /\ clist.pc = "live"
    /\ clist.list.size < MaxListSize
    /\ LET res == client_list_add(clist.list, client, realloc_ok)
       IN  clist' = [clist EXCEPT !.list = res.list,
                                  !.last = Call("add", client, clist.list, res.rc)]
    /\ UNCHANGED <<pc, reg_table, table_alive, message_id, connected, errno, received,
                   msg_alive, ra, mutex, r, rc, reexecing, terminating, sent, hist,
                   reg_cond, other, llist, super,
                   parser, runtime>>

ClientListRemove(client, realloc_ok) ==
    /\ clist.pc = "live"
    /\ clist' = [clist EXCEPT !.list = client_list_remove(clist.list, client, realloc_ok),
                              !.last = Call("remove", client, clist.list, 0)]
    /\ UNCHANGED <<pc, reg_table, table_alive, message_id, connected, errno, received,
                   msg_alive, ra, mutex, r, rc, reexecing, terminating, sent, hist,
                   reg_cond, other, llist, super,
                   parser, runtime>>

\* The list is cloned and the clone is the list used from then on.
ClientListClone(malloc_ok) ==
    /\ clist.pc = "live"
    /\ LET res == client_list_clone(clist.list, malloc_ok)
       IN  clist' = [clist EXCEPT !.list = IF res.rc = 0 THEN res.list ELSE clist.list,
                                  !.last = Call("clone", 0, clist.list, res.rc)]
    /\ UNCHANGED <<pc, reg_table, table_alive, message_id, connected, errno, received,
                   msg_alive, ra, mutex, r, rc, reexecing, terminating, sent, hist,
                   reg_cond, other, llist, super,
                   parser, runtime>>

\* The list is marshalled into a buffer of client_list_marshal_size bytes and
\* unmarshalled into a new list, which is the list used from then on; the
\* call recorded has the bytes written as its argument.
ClientListRoundTrip(malloc_ok) ==
    /\ clist.pc = "live"
    /\ LET data == client_list_marshal(clist.list)
       IN  clist' = [clist EXCEPT !.list = IF malloc_ok THEN client_list_unmarshal(data)
                                           ELSE clist.list,
                                  !.last = Call("unmarshal", Bytes(data), clist.list,
                                                IF malloc_ok THEN 0 ELSE -1)]
    /\ UNCHANGED <<pc, reg_table, table_alive, message_id, connected, errno, received,
                   msg_alive, ra, mutex, r, rc, reexecing, terminating, sent, hist,
                   reg_cond, other, llist, super,
                   parser, runtime>>

NextClientList ==
    \/ \E capacity \in CreateCapacities, malloc_ok \in BOOLEAN :
          ClientListCreate(capacity, malloc_ok)
    \/ \E client \in ListClients, realloc_ok \in BOOLEAN : ClientListAdd(client, realloc_ok)
    \/ \E client \in ListClients, realloc_ok \in BOOLEAN : ClientListRemove(client, realloc_ok)
    \/ \E malloc_ok \in BOOLEAN : ClientListClone(malloc_ok)
    \/ \E malloc_ok \in BOOLEAN : ClientListRoundTrip(malloc_ok)

SpecClientList == InitClientList /\ [][NextClientList]_vars

----------------------------------------------------------------------------
(* linked_list_t (src/src/libmdsserver/linked-list.c): the four arrays      *)
(* reusable, values, next and previous, indexed from 0.  alloc is the       *)
(* length the arrays were last allocated with; valid is FALSE once a call   *)
(* has read or written outside the arrays or through a null pointer, after  *)
(* which nothing is known about the list.                                   *)

LINKED_LIST_DEFAULT_INITIAL_CAPACITY == 128
LINKED_LIST_UNUSED == -1

\* What a cell holds that was allocated and never written, and what a read
\* outside the arrays gives.
Indeterminate == -2
Wild == -3

Fresh(n) == [i \in 0..(n - 1) |-> Indeterminate]

Resized(arr, n) == [i \in 0..(n - 1) |-> IF i \in DOMAIN arr THEN arr[i] ELSE Indeterminate]

In(this, i) == i \in 0..(this.alloc - 1)

Corrupt(this) == [this EXCEPT !.valid = FALSE]

\* this->arr[i]
Rd(this, arr, i) == IF In(this, i) THEN this[arr][i] ELSE Wild

\* this->arr[i] = v
Set(this, arr, i, v) ==
    IF this.valid /\ In(this, i) /\ v # Wild
    THEN [this EXCEPT ![arr] = [@ EXCEPT ![i] = v]]
    ELSE Corrupt(this)

linked_list_create(capacity) ==
    LET cap == to_power_of_two(IF capacity = 0 THEN LINKED_LIST_DEFAULT_INITIAL_CAPACITY
                               ELSE capacity)
    IN  [capacity |-> cap, alloc |-> cap, edge |-> 0, end |-> 1, reuse_head |-> 0,
         reusable |-> Fresh(cap),
         values |-> [Fresh(cap) EXCEPT ![0] = 0],
         next |-> [Fresh(cap) EXCEPT ![0] = 0],
         previous |-> [Fresh(cap) EXCEPT ![0] = 0],
         valid |-> TRUE]

\* linked_list_get_next: [list, node].  When a realloc fails the capacity has
\* been doubled already and LINKED_LIST_UNUSED is returned.
linked_list_get_next(this, realloc_ok) ==
    IF this.reuse_head > 0
    THEN [list |-> [this EXCEPT !.reuse_head = @ - 1],
          node |-> Rd(this, "reusable", this.reuse_head - 1)]
    ELSE IF this.end = this.capacity
    THEN IF realloc_ok
         THEN [list |-> [this EXCEPT !.capacity = 2 * @, !.alloc = 2 * this.capacity,
                                     !.values = Resized(@, 2 * this.capacity),
                                     !.next = Resized(@, 2 * this.capacity),
                                     !.previous = Resized(@, 2 * this.capacity),
                                     !.reusable = Resized(@, 2 * this.capacity),
                                     !.end = @ + 1],
               node |-> this.end]
         ELSE [list |-> [this EXCEPT !.capacity = 2 * @], node |-> LINKED_LIST_UNUSED]
    ELSE [list |-> [this EXCEPT !.end = @ + 1], node |-> this.end]

linked_list_unuse(this, node) ==
    IF node < 0 THEN (IF node = LINKED_LIST_UNUSED THEN this ELSE Corrupt(this))
    ELSE LET a == Set(this, "reusable", this.reuse_head, node)
             b == [a EXCEPT !.reuse_head = @ + 1]
             c == Set(b, "next", node, LINKED_LIST_UNUSED)
         IN  Set(c, "previous", node, LINKED_LIST_UNUSED)

linked_list_insert_after(this, value, predecessor, realloc_ok) ==
    LET got  == linked_list_get_next(this, realloc_ok)
        node == got.node
        a == Set(got.list, "values", node, value)
        b == Set(a, "next", node, Rd(a, "next", predecessor))
        c == Set(b, "next", predecessor, node)
        d == Set(c, "previous", node, predecessor)
    IN  Set(d, "previous", Rd(d, "next", node), node)

\* previous[node] is given next[successor]
linked_list_insert_before(this, value, successor, realloc_ok) ==
    LET got  == linked_list_get_next(this, realloc_ok)
        node == got.node
        a == Set(got.list, "values", node, value)
        b == Set(a, "previous", node, Rd(a, "next", successor))
        c == Set(b, "previous", successor, node)
        d == Set(c, "next", node, successor)
    IN  Set(d, "next", Rd(d, "previous", node), node)

linked_list_remove_after(this, predecessor) ==
    LET node == Rd(this, "next", predecessor)
        a == Set(this, "next", predecessor, Rd(this, "next", node))
        b == Set(a, "previous", Rd(a, "next", node), predecessor)
    IN  linked_list_unuse(b, node)

linked_list_remove_before(this, successor) ==
    LET node == Rd(this, "previous", successor)
        a == Set(this, "previous", successor, Rd(this, "previous", node))
        b == Set(a, "next", Rd(a, "previous", node), successor)
    IN  linked_list_unuse(b, node)

linked_list_remove(this, node) ==
    LET a == Set(this, "next", Rd(this, "previous", node), Rd(this, "next", node))
        b == Set(a, "previous", Rd(a, "next", node), Rd(a, "previous", node))
    IN  linked_list_unuse(b, node)

\* The first slot below end whose next is not LINKED_LIST_UNUSED, end if none.
RECURSIVE PackHead(_, _)
PackHead(this, head) ==
    IF head # this.end /\ Rd(this, "next", head) = LINKED_LIST_UNUSED
    THEN PackHead(this, head + 1)
    ELSE head

\* The loop that fills vals: [vals, ok]; ok is FALSE when the loop writes
\* past the cap elements of vals or reads outside the arrays.
RECURSIVE PackValues(_, _, _, _, _, _)
PackValues(this, cap, head, node, i, vals) ==
    IF node = head /\ i # 0 THEN [vals |-> vals, ok |-> TRUE]
    ELSE IF i >= cap \/ ~In(this, node) THEN [vals |-> vals, ok |-> FALSE]
    ELSE PackValues(this, cap, head, this.next[node], i + 1,
                    [vals EXCEPT ![i] = this.values[node]])

RECURSIVE PackLink(_, _, _)
PackLink(this, size, i) ==
    IF i >= size THEN this
    ELSE PackLink(Set(IF i >= 1 THEN Set(this, "previous", i, i - 1) ELSE this,
                      "next", i, i + 1),
                  size, i + 1)

\* linked_list_pack: [list, rc].  size is end - reuse_head and cap the power
\* of two for it (0 for size 0, where value - 1 wraps); the values are
\* collected along next from the first used slot; when cap differs from the
\* capacity next, previous and reusable are replaced by arrays of cap
\* elements, and the capacity field is left as it was.
linked_list_pack(this, malloc_ok) ==
    LET size == this.end - this.reuse_head
        cap  == IF size = 0 THEN 0 ELSE to_power_of_two(size)
        head == PackHead(this, 0)
        got  == IF head # this.end THEN PackValues(this, cap, head, head, 0, Fresh(cap))
                ELSE [vals |-> Fresh(cap), ok |-> TRUE]
        sized == IF cap # this.capacity
                 THEN [this EXCEPT !.alloc = cap, !.next = Fresh(cap),
                                   !.previous = Fresh(cap), !.reusable = Fresh(cap)]
                 ELSE this
        linked == Set(Set(PackLink(sized, size, 0), "next", size - 1, 0),
                      "previous", 0, size - 1)
    IN  IF ~malloc_ok THEN [list |-> this, rc |-> -1]
        ELSE IF ~got.ok THEN [list |-> Corrupt(this), rc |-> 0]
        ELSE [list |-> [linked EXCEPT !.values = got.vals, !.end = size,
                                      !.reuse_head = 0],
              rc |-> 0]

\* A linked list on its own: created, then changed by the five insert and
\* remove functions with a used slot as their reference, and packed.

MaxSlots == 4
MaxLinkedCalls == 5

ListValues == {1, 2}

LinkedCapacities == {1, 4}

OnFreeStack(this, slot) ==
    \E k \in 0..(this.reuse_head - 1) : Rd(this, "reusable", k) = slot

Used(this) == {slot \in 0..(this.end - 1) : ~OnFreeStack(this, slot)}

\* There is a slot to reuse, or the slots handed out so far are fewer than MaxSlots.
Room(this) == this.reuse_head > 0 \/ this.end < MaxSlots

InitLinkedList == FreshServer /\ LibUnused

\* The list after a call, with the number of calls made on it and whether
\* it has been packed; of a list
\* that is no longer valid nothing but the call that ended it is kept.
Linked(list, last) ==
    IF list.valid
    THEN [pc |-> "live", list |-> list, last |-> last,
          calls |-> IF last.op = "create" THEN 0 ELSE llist.calls + 1,
          packed |-> last.op # "create" /\ (last.op = "pack" \/ llist.packed)]
    ELSE [pc |-> "undefined", list |-> Corrupt(last.before), last |-> last,
          calls |-> llist.calls + 1,
          packed |-> last.op = "pack" \/ llist.packed]

LinkedListCreate(capacity) ==
    /\ llist.pc = "unused"
    /\ llist' = Linked(linked_list_create(capacity),
                       Call("create", capacity, linked_list_create(capacity), 0))
    /\ UNCHANGED <<pc, reg_table, table_alive, message_id, connected, errno, received,
                   msg_alive, ra, mutex, r, rc, reexecing, terminating, sent, hist,
                   reg_cond, other, clist, super,
                   parser, runtime>>

LinkedListInsertAfter(value, predecessor, realloc_ok) ==
    /\ llist.pc = "live" /\ llist.calls < MaxLinkedCalls /\ Room(llist.list)
    /\ predecessor \in Used(llist.list)
    /\ llist' = Linked(linked_list_insert_after(llist.list, value, predecessor, realloc_ok),
                       Call("insert_after", predecessor, llist.list, 0))
    /\ UNCHANGED <<pc, reg_table, table_alive, message_id, connected, errno, received,
                   msg_alive, ra, mutex, r, rc, reexecing, terminating, sent, hist,
                   reg_cond, other, clist, super,
                   parser, runtime>>

LinkedListInsertBefore(value, successor, realloc_ok) ==
    /\ llist.pc = "live" /\ llist.calls < MaxLinkedCalls /\ Room(llist.list)
    /\ successor \in Used(llist.list)
    /\ llist' = Linked(linked_list_insert_before(llist.list, value, successor, realloc_ok),
                       Call("insert_before", successor, llist.list, 0))
    /\ UNCHANGED <<pc, reg_table, table_alive, message_id, connected, errno, received,
                   msg_alive, ra, mutex, r, rc, reexecing, terminating, sent, hist,
                   reg_cond, other, clist, super,
                   parser, runtime>>

LinkedListRemoveAfter(predecessor) ==
    /\ llist.pc = "live" /\ llist.calls < MaxLinkedCalls
    /\ predecessor \in Used(llist.list)
    /\ llist' = Linked(linked_list_remove_after(llist.list, predecessor),
                       Call("remove_after", predecessor, llist.list, 0))
    /\ UNCHANGED <<pc, reg_table, table_alive, message_id, connected, errno, received,
                   msg_alive, ra, mutex, r, rc, reexecing, terminating, sent, hist,
                   reg_cond, other, clist, super,
                   parser, runtime>>

LinkedListRemoveBefore(successor) ==
    /\ llist.pc = "live" /\ llist.calls < MaxLinkedCalls
    /\ successor \in Used(llist.list)
    /\ llist' = Linked(linked_list_remove_before(llist.list, successor),
                       Call("remove_before", successor, llist.list, 0))
    /\ UNCHANGED <<pc, reg_table, table_alive, message_id, connected, errno, received,
                   msg_alive, ra, mutex, r, rc, reexecing, terminating, sent, hist,
                   reg_cond, other, clist, super,
                   parser, runtime>>

\* linked_list_remove is given a used slot other than the edge.
LinkedListRemove(node) ==
    /\ llist.pc = "live" /\ llist.calls < MaxLinkedCalls
    /\ node \in Used(llist.list) /\ node # llist.list.edge
    /\ llist' = Linked(linked_list_remove(llist.list, node),
                       Call("remove", node, llist.list, 0))
    /\ UNCHANGED <<pc, reg_table, table_alive, message_id, connected, errno, received,
                   msg_alive, ra, mutex, r, rc, reexecing, terminating, sent, hist,
                   reg_cond, other, clist, super,
                   parser, runtime>>

LinkedListPack(malloc_ok) ==
    /\ llist.pc = "live" /\ llist.calls < MaxLinkedCalls
    /\ LET res == linked_list_pack(llist.list, malloc_ok)
       IN  llist' = Linked(res.list, Call("pack", 0, llist.list, res.rc))
    /\ UNCHANGED <<pc, reg_table, table_alive, message_id, connected, errno, received,
                   msg_alive, ra, mutex, r, rc, reexecing, terminating, sent, hist,
                   reg_cond, other, clist, super,
                   parser, runtime>>

NextLinkedList ==
    \/ \E capacity \in LinkedCapacities : LinkedListCreate(capacity)
    \/ \E value \in ListValues, ref \in 0..(MaxSlots - 1), realloc_ok \in BOOLEAN :
          LinkedListInsertAfter(value, ref, realloc_ok)
    \/ \E value \in ListValues, ref \in 0..(MaxSlots - 1), realloc_ok \in BOOLEAN :
          LinkedListInsertBefore(value, ref, realloc_ok)
    \/ \E ref \in 0..(MaxSlots - 1) : LinkedListRemoveAfter(ref)
    \/ \E ref \in 0..(MaxSlots - 1) : LinkedListRemoveBefore(ref)
    \/ \E ref \in 0..(MaxSlots - 1) : LinkedListRemove(ref)
    \/ \E malloc_ok \in BOOLEAN : LinkedListPack(malloc_ok)

SpecLinkedList == InitLinkedList /\ [][NextLinkedList]_vars

----------------------------------------------------------------------------
(* spawn_and_respawn_server (src/src/mds.c): the supervisor forks the       *)
(* master server, waits for it to die and decides whether to fork again.    *)
(* A wait status is the number waitpid stores: exit code * 256 for a normal *)
(* exit, the signal number, plus 128 when core was dumped, for a kill.      *)

RESPAWN_TIME_LIMIT_SECONDS == 5

SIGTERM == 15
SIGSEGV == 11
SIGKILL == 9

WIFEXITED(status) == status % 128 = 0
WEXITSTATUS(status) == (status \div 256) % 256
WTERMSIG(status) == status % 128

Exited(code) == code * 256
Killed(sig, core) == sig + (IF core THEN 128 ELSE 0)

\* How the master server may die.
Statuses == {Exited(0), Exited(1), Killed(SIGTERM, FALSE), Killed(SIGKILL, FALSE),
             Killed(SIGSEGV, TRUE)}

\* Seconds on the monotonic clock between the fork and the death.
Lifetimes == {0, RESPAWN_TIME_LIMIT_SECONDS - 1, RESPAWN_TIME_LIMIT_SECONDS,
              RESPAWN_TIME_LIMIT_SECONDS + 1}

MaxSpawns == 3

NoDeath == [status |-> -1, lifetime |-> -1, waited |-> FALSE]

\* What child_args[argc + 0] holds when strdup found no memory; execv then
\* takes the argument list to end there.
NullString == "(null)"

strdup(s, malloc_ok) == IF malloc_ok THEN s ELSE NullString

\* child_args[argc + 0] as the flag was never replaced.
child_arg_kept(first_spawn, arg, malloc_ok) == arg

\* child_args[argc + 0] at the end of a loop body that goes on to fork again.
child_arg(first_spawn, arg, malloc_ok) ==
    IF first_spawn # 0 THEN strdup("--respawn", malloc_ok) ELSE arg

\* The supervisor in front of its loop: child_args[argc + 0] is --initial-spawn.
InitSuper ==
    /\ FreshServer /\ clist = Unused /\ llist = Unused
    /\ parser = Unused /\ runtime = Unused
    /\ \E malloc_ok \in BOOLEAN :
         super = [pc |-> "fork", first_spawn |-> 1,
                  arg |-> strdup("--initial-spawn", malloc_ok),
                  spawned |-> <<>>, time_error |-> FALSE, rc |-> -1, died |-> NoDeath]

\* fork() and, in the parent, the first clock_gettime; the child calls execv
\* with child_args as they are.
SuperFork(fork_ok, clock_ok) ==
    /\ super.pc = "fork"
    /\ Len(super.spawned) < MaxSpawns
    /\ super' = IF fork_ok
                THEN [super EXCEPT !.pc = "waiting",
                                   !.spawned = Append(@, super.arg),
                                   !.time_error = ~clock_ok]
                ELSE [super EXCEPT !.pc = "returned", !.rc = 1]
    /\ UNCHANGED <<pc, reg_table, table_alive, message_id, connected, errno, received,
                   msg_alive, ra, mutex, r, rc, reexecing, terminating, sent, hist,
                   reg_cond, other, clist, llist,
                   parser, runtime>>

\* waitpid returns and the rest of the loop body runs: status is what the
\* master server died of, lifetime what the two clock readings differ by.
SuperWait(wait_ok, status, clock_ok, lifetime, malloc_ok) ==
    /\ super.pc = "waiting"
    /\ LET death == [status |-> status, lifetime |-> lifetime, waited |-> wait_ok]
           time_error == super.time_error \/ ~clock_ok
       IN  super' =
             IF ~wait_ok
             THEN [super EXCEPT !.pc = "returned", !.rc = 1, !.died = death]
             ELSE IF WIFEXITED(status) \/ (WEXITSTATUS(status) # 0 /\ WTERMSIG(status) # 0)
             THEN [super EXCEPT !.pc = "returned", !.rc = 0, !.died = death]
             ELSE IF time_error
             THEN [super EXCEPT !.pc = "returned", !.rc = 1, !.died = death,
                                !.time_error = TRUE]
             ELSE IF lifetime < RESPAWN_TIME_LIMIT_SECONDS
             THEN [super EXCEPT !.pc = "fork", !.died = death,
                                !.first_spawn = 0,
                                !.arg = child_arg(super.first_spawn, @, malloc_ok)]
             ELSE [super EXCEPT !.pc = "returned", !.rc = 1, !.died = death]
    /\ UNCHANGED <<pc, reg_table, table_alive, message_id, connected, errno, received,
                   msg_alive, ra, mutex, r, rc, reexecing, terminating, sent, hist,
                   reg_cond, other, clist, llist,
                   parser, runtime>>

NextSuper ==
    \/ \E fork_ok \in BOOLEAN, clock_ok \in BOOLEAN : SuperFork(fork_ok, clock_ok)
    \/ \E wait_ok \in BOOLEAN, status \in Statuses, clock_ok \in BOOLEAN,
          lifetime \in Lifetimes, malloc_ok \in BOOLEAN :
          SuperWait(wait_ok, status, clock_ok, lifetime, malloc_ok)

SpecSuper == InitSuper /\ [][NextSuper]_vars

----------------
(* Properties of the registry and of the handlers.                         *)

\* The value of the first header called name, NULL when there is none.
HeaderValue(headers, name) ==
    IF \E i \in 1..Len(headers) : headers[i].name = name
    THEN headers[CHOOSE i \in 1..Len(headers) :
                   /\ headers[i].name = name
                   /\ \A j \in 1..(i - 1) : headers[j].name # name].value
    ELSE NULL

\* The lines of a payload: the text before each newline.
RECURSIVE Lines(_)
Lines(s) ==
    LET n == IndexFrom(s, 1, NL) IN
    IF s = <<>> THEN <<>>
    ELSE IF n = 0 THEN <<s>>
    ELSE <<SubSeq(s, 1, n - 1)>> \o Lines(SubSeq(s, n + 1, Len(s)))

Without(clients, x) == SelectSeq(clients, LAMBDA c : c # x)

\* Every key and every list is a live object and no list is empty.
WellFormed(table) ==
    \A i \in 1..Len(table) :
        /\ table[i].key_live /\ table[i].list_live
        /\ table[i].list.size >= 1
        /\ table[i].list.size = Len(table[i].list.clients)

\* master_loop goes on to the next message after the handler returned.
Continues == r = 0 \/ (r # -2 /\ errno = "EINTR")

\* C1: starting from the empty registry, the number of times a client occurs
\* in the list of a command is the number of adds of that pair minus the
\* number of its removes, a remove of an absent pair counting for nothing.
C1_MultiplicityIsAddsMinusRemoves ==
    (hist.from_empty /\ table_alive) =>
        \A k \in DOMAIN hist.ledger :
            Multiplicity(reg_table, k[1], k[2]) = hist.ledger[k]

\* C2: between two dispatched messages every key of reg_table maps to a
\* client list that holds at least one client.
C2_NoEmptyList ==
    (pc = "loop" \/ (pc = "returned" /\ Continues)) => WellFormed(reg_table)

\* A close has emptied a list and taken it out; another list is still there.
C2_EmptiedListRemoved ==
    /\ pc = "returned" /\ Continues /\ hist.handler = "close"
    /\ Len(reg_table) >= 1 /\ Len(reg_table) < Len(hist.before)

\* C3: add(c, x) with c not in the table reports success and leaves c with a
\* fresh live list that holds x once; with c in the table it appends x to the
\* list of c and reports success.
C3_AddContract ==
    (pc \in {"acting", "returned"} /\ hist.act.action = 1 /\ hist.act.alloc_ok) =>
        LET a == hist.act
            i == hash_table_get_entry(reg_table, a.command)
            j == hash_table_get_entry(a.table, a.command)
        IN  /\ a.rc = 0
            /\ i # 0
            /\ reg_table[i].list_live
            /\ reg_table[i].list.clients =
                 IF a.has_key THEN Append(a.table[j].list.clients, a.client)
                 ELSE <<a.client>>

\* C4: a register message that passes the checks is dispatched by its Action
\* header: add adds, remove removes, wait waits, list lists, and any other
\* value does nothing.
C4_DispatchByAction ==
    (hist.handler = "register" /\ hist.verdict = "valid") =>
        LET action == HeaderValue(received.headers, "Action") IN
        /\ action = ADD => hist.dispatched = "add"
        /\ action = REMOVE => hist.dispatched = "remove"
        /\ action = WAIT => hist.dispatched = "wait"
        /\ action = LIST => hist.dispatched = "list"
        /\ action \notin {NULL, ADD, REMOVE, WAIT, LIST} =>
              hist.dispatched = "invalid" /\ reg_table = hist.before

\* C5: a register message with a payload and no Action header is handled as
\* an add of the commands of the payload for the sender, and the handler
\* returns normally.
C5_NoActionIsAdd ==
    ( /\ hist.handler = "register" /\ hist.verdict = "valid"
      /\ HeaderValue(received.headers, "Action") = NULL
      /\ HeaderValue(received.headers, "Length") # NULL ) =>
        /\ hist.dispatched = "add"
        /\ pc # "crashed"
        /\ pc = "returned" =>
             /\ r = 0
             /\ \A n \in 1..Len(Lines(hist.payload)) :
                   Multiplicity(reg_table, Lines(hist.payload)[n],
                                parse_client_id(hist.call.client_id)) >= 1

\* The cases the handler rejects, read from the headers of the message.
Rejectable(headers) ==
    LET client_id == HeaderValue(headers, "Client ID") IN
    \/ client_id = NULL
    \/ client_id = ANONYMOUS
    \/ \A i \in 1..Len(client_id) : client_id[i] # ":"
    \/ HeaderValue(headers, "Message ID") = NULL
    \/ /\ HeaderValue(headers, "Length") = NULL
       /\ HeaderValue(headers, "Action") # LIST

\* C6: a register message whose Client ID is missing, is "0:0" or has no
\* colon, whose Message ID is missing, or whose Length is missing while the
\* action is not list, leaves reg_table and message_id as they were and sends
\* nothing; the handler returns 0 and the loop goes on to the next message.
C6_RejectedLeavesNoTrace ==
    [][ /\ ( /\ pc = "loop" /\ hist'.handler = "register"
             /\ Rejectable(received'.headers) ) =>
               /\ pc' = "returned" /\ r' = 0
               /\ reg_table' = reg_table /\ message_id' = message_id
               /\ sent' = <<>>
        /\ ( /\ pc = "returned" /\ hist.handler = "register"
             /\ Rejectable(received.headers) ) =>
               pc' = "loop" /\ reg_table' = reg_table /\ message_id' = message_id
      ]_vars

\* A message whose sender has no colon was rejected with commands registered.
C6_Rejected ==
    /\ pc = "returned" /\ hist.handler = "register"
    /\ hist.verdict = "no colon" /\ Rejectable(received.headers)
    /\ reg_table # <<>>

\* C7: the reply of list has To: the Client ID of the requester, In response
\* to: the Message ID of the request, and Message ID: the value of message_id
\* at the call.
C7_ListHeaders ==
    (pc = "listed" /\ sent # <<>>) =>
        LET headers == sent[1].headers IN
        /\ HeaderValue(headers, "To") = hist.call.client_id
        /\ HeaderValue(headers, "In response to") = hist.call.message_id
        /\ HeaderValue(headers, "Message ID") = Decimal(hist.call.counter)

\* C8: a call of list sends one message: the header block first and in full,
\* then the payload, which is every key of reg_table once, each followed by
\* a newline, and whose byte count is the Length header.
C8_ListPayload ==
    /\ pc = "listed" =>
          /\ Len(sent) <= 2
          /\ \A n \in 1..Len(sent) :
                sent[n].part = (IF n = 1 THEN "headers" ELSE "payload")
          /\ Len(sent) = 2 => sent[1].complete
    /\ (pc = "listed" /\ r = 0) =>
          /\ Len(sent) = 2 /\ sent[2].complete
          /\ LET bytes == sent[2].bytes
                 names == Lines(bytes)
             IN  /\ bytes # <<>> => bytes[Len(bytes)] = NL
                 /\ Len(names) = Len(reg_table)
                 /\ \A i \in 1..Len(reg_table) : Count(names, reg_table[i].key) = 1
                 /\ HeaderValue(sent[1].headers, "Length") = Decimal(Len(bytes))

\* A list of a registry of two commands has been sent.
C8_TwoKeysListed ==
    /\ pc = "listed" /\ r = 0
    /\ Len(reg_table) = 2 /\ Len(sent) = 2

\* The message closes one client and that client is at most once in each list.
ClosesOnce(x) ==
    /\ hist.handler = "close"
    /\ received.headers = <<H("Client closed", received.headers[1].value)>>
    /\ x = parse_client_id(received.headers[1].value)
    /\ \A i \in 1..Len(hist.before) : Count(hist.before[i].list.clients, x) <= 1

\* C9: after close(x), x being at most once in each list, no list holds x,
\* the commands whose list became empty are gone with their lists, and the
\* other commands keep their other clients.
C9_CloseSweeps ==
    \A x \in {<<1, 1>>, <<1, 2>>} :
        (pc = "returned" /\ r = 0 /\ ClosesOnce(x)) =>
            LET swept == [i \in 1..Len(hist.before) |->
                            [key |-> hist.before[i].key,
                             clients |-> Without(hist.before[i].list.clients, x)]]
                now == [i \in 1..Len(reg_table) |->
                          [key |-> reg_table[i].key,
                           clients |-> reg_table[i].list.clients]]
            IN  /\ WellFormed(reg_table)
                /\ now = SelectSeq(swept, LAMBDA e : e.clients # <<>>)

\* A close of 1:1 has emptied one list and shortened another.
C9_Closed ==
    /\ pc = "returned" /\ r = 0 /\ ClosesOnce(<<1, 1>>)
    /\ \E i \in 1..Len(hist.before) : hist.before[i].list.clients = <<<<1, 1>>>>
    /\ \E i \in 1..Len(hist.before) : hist.before[i].list.clients = <<<<1, 1>>, <<1, 2>>>>

\* C10: close(x) followed by add(c, x) leaves x exactly once in the list of c.
C10_CloseThenAdd ==
    ( /\ pc \in {"acting", "returned"}
      /\ hist.act.action = 1 /\ hist.act.alloc_ok
      /\ hist.act.client = hist.prev_closed ) =>
        Multiplicity(reg_table, hist.act.command, hist.act.client) = 1

\* An add of a command that a wait has put in its wait_set has been made.
AddOfWaited ==
    /\ pc \in {"acting", "returned"}
    /\ hist.act.action = 1 /\ hist.act.alloc_ok
    /\ hist.act.command \in hist.waited

\* A message that is not a list reply has been sent, and reg_cond signalled.
Notified ==
    /\ \E n \in 1..Len(sent) : sent[n].part = "notification"
    /\ reg_cond.signals > 0

\* C11: when a client has issued wait for a command that is not registered
\* and a later add registers that command, a message that tells the waiter
\* so is eventually emitted and reg_cond is signalled after that add.
C11_WaitIsNotified == AddOfWaited ~> Notified

\* The server thread takes a step of an operation on reg_table: the close
\* sweep, or a turn of registry_action.
ServerInTable ==
    \/ pc = "loop" /\ hist'.handler = "close"
    \/ pc = "acting" /\ hist'.act # hist.act

\* The second thread is inside the loop of list_registry over reg_table.
OtherInTable == other.pc = "building"

\* C12: every operation on reg_table holds reg_mutex as long as it uses the
\* table, so the server thread and a second thread never use the table at
\* the same time, the close sweep included.
C12_MutualExclusion ==
    [][ /\ ServerInTable => ~OtherInTable /\ mutex # "other"
        /\ (OtherInTable /\ other'.pc # "building") => mutex = "other"
      ]_vars

\* C13: registry_action and list_registry have released reg_mutex whenever
\* they have returned, with or without an error, and nothing is sent on the
\* socket while the mutex is held.
C13_MutexReleased ==
    /\ [](pc \in {"loop", "returned"} => mutex # "held")
    /\ [](other.pc \in {"idle", "sending", "returned"} => mutex # "other")
    /\ [][other'.sent # other.sent => mutex # "other" /\ mutex' # "other"]_vars

\* registry_action has failed inside its loop and list_registry has sent its
\* reply; the mutex is free.
C13_BothReturned ==
    /\ pc = "returned" /\ hist.handler = "register" /\ r = -1 /\ hist.act.rc = -1
    /\ other.pc = "returned" /\ Len(other.sent) = 2
    /\ mutex = "free"

\* C14: when an add reports failure, reg_table is as it was before the call:
\* the same keys, each with its live list and the same members.
C14_FailedAddLeavesTable ==
    (pc \in {"acting", "returned"} /\ hist.act.action = 1 /\ hist.act.rc # 0) =>
        reg_table = hist.act.table

\* C15: when the key array of a close sweep cannot be allocated or grown,
\* no key has been deleted, every list is what it was less the closed
\* clients, only emptied lists are left over, and a later sweep, which the
\* server goes on to make, removes them.
C15_FailedCloseIsHarmless ==
    (hist.handler = "close" /\ r = -1 /\ pc \in {"returned", "exited", "crashed"}) =>
        LET closed == ClosedClients(received.headers, 1)
            gone == {closed[n] : n \in 1..Len(closed)}
            again == handle_close_message(reg_table, received.headers, 0, TRUE)
        IN  /\ pc = "returned" /\ Continues
            /\ table_alive
            /\ Len(reg_table) = Len(hist.before)
            /\ \A i \in 1..Len(reg_table) :
                  /\ reg_table[i].key = hist.before[i].key
                  /\ reg_table[i].key_live /\ reg_table[i].list_live
                  /\ \A x \in {<<1, 1>>, <<1, 2>>} :
                        IF x \in gone
                        THEN Count(reg_table[i].list.clients, x)
                               <= Count(hist.before[i].list.clients, x)
                        ELSE Count(reg_table[i].list.clients, x)
                               = Count(hist.before[i].list.clients, x)
            /\ ~again.crashed => WellFormed(again.table)

C17_MalformedIsReset ==
    [][ (pc = "loop" /\ r' = -2) =>
           /\ received' = NoMessage /\ msg_alive'
           /\ reg_table' = reg_table /\ table_alive'
           /\ connected' = (reconnect_to_display = 0)
      ]_vars

\* C18: when the loop ends because reexecing is set, master_loop returns 0
\* and neither reg_table nor received is destroyed; when it ends because
\* terminating is set, both are destroyed before it returns.
C18_ExitByFlag ==
    [][ (pc = "loop" /\ (reexecing \/ terminating) /\ pc' # "loop") =>
           /\ rc' = 0
           /\ IF reexecing
              THEN table_alive' /\ msg_alive' /\ reg_table' = reg_table
                   /\ received' = received
              ELSE ~table_alive' /\ ~msg_alive'
      ]_vars

\* master_loop has returned 0 for a re-exec with commands registered.
C18_LeftForReexec ==
    /\ pc = "exited" /\ rc = 0 /\ reexecing
    /\ table_alive /\ msg_alive /\ reg_table # <<>>

\* s begins with prefix.
StartsWith(s, prefix) ==
    Len(s) >= Len(prefix) /\ SubSeq(s, 1, Len(prefix)) = prefix

\* The first message of a byte stream: the lines of its header block, the
\* payload that its Length header announces, and the bytes behind it.
FirstMessage(stream) ==
    LET blank == CHOOSE i \in 1..Len(stream) :
                   /\ stream[i] = NL /\ (i = 1 \/ stream[i - 1] = NL)
                   /\ \A j \in 1..(i - 1) : ~(stream[j] = NL /\ (j = 1 \/ stream[j - 1] = NL))
        headers == Lines(SubSeq(stream, 1, blank - 1))
        lengths == SelectSeq(headers, LAMBDA h : StartsWith(h, <<"L", "e", "n", "g", "t", "h", ":", " ">>))
        length == IF lengths = <<>> THEN 0
                  ELSE atoll(SubSeq(lengths[1], 9, Len(lengths[1])))
    IN  [headers |-> headers,
         payload |-> SubSeq(stream, blank + 1, Min(blank + length, Len(stream))),
         rest |-> SubSeq(stream, blank + length + 1, Len(stream))]

InterceptPayload ==
    <<"C", "o", "m", "m", "a", "n", "d", ":", " ", "r", "e", "g", "i", "s", "t", "e", "r", NL, "C", "l", "i", "e", "n", "t", " ", "c", "l", "o", "s", "e", "d", NL>>

C20_MessageIdCounter ==
    /\ [](message_id \in 0..INT32_MAX)
    /\ []((hist.fresh /\ hist.lists = 0) => message_id = 2)
    /\ [][ message_id' # message_id =>
             /\ pc = "loop" /\ pc' = "listed" /\ hist'.handler = "list"
             /\ message_id' = IF message_id = INT32_MAX THEN 0 ELSE message_id + 1
             /\ sent' # <<>>
             /\ HeaderValue(sent'[1].headers, "Message ID") = Decimal(message_id)
       ]_vars
    /\ [][ (pc = "loop" /\ pc' = "listed" /\ sent' # <<>>) =>
             /\ HeaderValue(sent'[1].headers, "Message ID") = Decimal(message_id)
             /\ message_id' = IF message_id = INT32_MAX THEN 0 ELSE message_id + 1
       ]_vars

\* A reply has gone out with Message ID INT32_MAX and the counter is 0.
C20_Wrapped ==
    /\ pc = "listed" /\ sent # <<>>
    /\ hist.call.counter = INT32_MAX /\ message_id = 0

\* The registry as a mapping: each command with the capacity, the size and
\* the members of its client list.
Mapping(table) ==
    { [command |-> table[i].key, capacity |-> table[i].list.capacity,
       size |-> table[i].list.size,
       members |-> SubSeq(table[i].list.clients, 1, table[i].list.size)] :
      i \in 1..Len(table) }

\* C21: when the server replaces its image, unmarshal_server restores from
\* what marshal_server wrote the same connected flag, the same message_id
\* and the same registry: the same commands, each with a client list of the
\* same capacity, size and members in the same order, so that a list lists
\* the same commands as before.
C21_ReexecRestores ==
    [][ (pc = "exited" /\ pc' = "loop") =>
          /\ connected' = connected
          /\ message_id' = message_id
          /\ Len(reg_table') = Len(reg_table)
          /\ Mapping(reg_table') = Mapping(reg_table)
          /\ Lines(ListPayload(reg_table', 1)) = Lines(ListPayload(reg_table, 1))
      ]_vars

\* The server runs in its second image with two commands, one of them held
\* by two clients.
C21_Restored ==
    /\ pc = "loop" /\ hist.reexecs = 1
    /\ Len(reg_table) = 2
    /\ \E i \in 1..2 : reg_table[i].list.size = 2

IsPowerOfTwo(n) == \E k \in 0..16 : n = 2 ^ k

\* C22: whatever has been done to a client list, its capacity is a power of
\* two, at least 1, and its size is at most its capacity.
C22_CapacityPowerOfTwo ==
    clist.pc = "live" =>
        /\ IsPowerOfTwo(clist.list.capacity)
        /\ clist.list.size <= clist.list.capacity

\* C23: a remove never leaves the capacity below the default initial
\* capacity, and after a remove that shrank the capacity either
\* size * 2 > capacity or the capacity is the default initial capacity.
C23_ShrinkStopsAtDefault ==
    (clist.pc = "live" /\ clist.last.op = "remove"
       /\ clist.list.capacity < clist.last.before.capacity) =>
        /\ clist.list.capacity >= CLIENT_LIST_DEFAULT_INITIAL_CAPACITY
        /\ \/ clist.list.size * 2 > clist.list.capacity
           \/ clist.list.capacity = CLIENT_LIST_DEFAULT_INITIAL_CAPACITY

\* C24: client_list_remove takes out the first occurrence of the client and
\* nothing else, the other clients keeping their order and the size going
\* down by one; a client that is not in the list leaves size, capacity and
\* contents as they were.
C24_RemoveFirstOccurrence ==
    (clist.pc = "live" /\ clist.last.op = "remove") =>
        LET old == clist.last.before
            id  == clist.last.arg
            at  == {i \in 1..old.size : old.clients[i] = id}
        IN  IF at = {}
            THEN clist.list = old
            ELSE LET first == CHOOSE i \in at : \A j \in at : i <= j
                 IN  /\ clist.list.size = old.size - 1
                     /\ Len(clist.list.clients) = old.size - 1
                     /\ \A k \in 1..(old.size - 1) :
                           clist.list.clients[k] =
                             IF k < first THEN old.clients[k] ELSE old.clients[k + 1]

\* The client removed stood twice in the list, with another client between.
C24_RemovedFirstOfTwo ==
    /\ clist.pc = "live" /\ clist.last.op = "remove"
    /\ clist.last.before.clients = <<<<1, 1>>, <<1, 2>>, <<1, 1>>>>
    /\ clist.last.arg = <<1, 1>>
    /\ clist.list.clients = <<<<1, 2>>, <<1, 1>>>>

\* C25: the list unmarshalled from the bytes of a marshalled list has its
\* capacity, its size and its clients in their order, the bytes written are
\* client_list_marshal_size of them, and the list of client_list_create(0)
\* comes back with size 0 and capacity 8.
C25_ClientListRoundTrip ==
    (clist.pc = "live" /\ clist.last.op = "unmarshal" /\ clist.last.rc = 0) =>
        LET old == clist.last.before IN
        /\ clist.last.arg = client_list_marshal_size(old)
        /\ clist.list.capacity = old.capacity
        /\ clist.list.size = old.size
        /\ clist.list.clients = SubSeq(old.clients, 1, old.size)
        /\ old = client_list_create(0) =>
              clist.list.size = 0 /\ clist.list.capacity = 8

\* A list that has grown past its first capacity has been through the buffer.
C25_RoundTripped ==
    /\ clist.pc = "live" /\ clist.last.op = "unmarshal" /\ clist.last.rc = 0
    /\ clist.list.size = 3 /\ clist.list.capacity = 4
    /\ clist.list.clients[1] # clist.list.clients[2]

\* The slots met by following next from slot, slot included, until one
\* comes up again or next leaves the arrays.
RECURSIVE Along(_, _, _)
Along(this, slot, seen) ==
    IF ~In(this, slot) \/ slot \in seen THEN seen
    ELSE Along(this, this.next[slot], seen \cup {slot})

\* The values met by following next from slot 0 until slot 0 comes up again.
RECURSIVE Traversal(_, _, _)
Traversal(this, slot, n) ==
    IF ~In(this, slot) \/ n = 0 \/ (slot = 0 /\ n <= this.alloc) THEN <<>>
    ELSE <<this.values[slot]>> \o Traversal(this, this.next[slot], n - 1)

ValuesFromZero(this) ==
    IF In(this, 0) THEN <<this.values[0]>> \o Traversal(this, this.next[0], this.alloc)
    ELSE <<>>

\* C26: while a linked list is changed by insert_after, insert_before,
\* remove_after, remove_before and remove with used slots as references,
\* every used slot s has next[previous[s]] = s = previous[next[s]] and is
\* reached from slot 0 along next, and every slot on the free stack has
\* next = previous = LINKED_LIST_UNUSED.
C26_RingWellFormed ==
    (llist.pc = "live" /\ ~llist.packed) =>
        /\ \A slot \in Used(llist.list) :
              /\ Rd(llist.list, "next", Rd(llist.list, "previous", slot)) = slot
              /\ Rd(llist.list, "previous", Rd(llist.list, "next", slot)) = slot
              /\ slot \in Along(llist.list, 0, {})
        /\ \A slot \in 0..(llist.list.end - 1) :
              OnFreeStack(llist.list, slot) =>
                  /\ llist.list.next[slot] = LINKED_LIST_UNUSED
                  /\ llist.list.previous[slot] = LINKED_LIST_UNUSED

\* C27: while a linked list is changed by the insert and remove functions
\* with used slots as references, slot 0 is in use, its next and previous
\* are not LINKED_LIST_UNUSED, it is not on the free stack and its value is 0.
C27_SentinelStays ==
    (llist.pc = "live" /\ ~llist.packed) =>
        /\ ~OnFreeStack(llist.list, 0)
        /\ llist.list.next[0] # LINKED_LIST_UNUSED
        /\ llist.list.previous[0] # LINKED_LIST_UNUSED
        /\ llist.list.values[0] = 0

\* C28: after linked_list_pack of a list with n used slots, slot 0 among
\* them, the used slots are 0..n-1, next leads from slot 0 through them in
\* increasing order, the values along it are the values that were met from
\* slot 0 before the pack, and the free stack is empty.
C28_PackCompacts ==
    (llist.pc = "live" /\ llist.last.op = "pack" /\ llist.last.rc = 0
       /\ 0 \in Used(llist.last.before)) =>
        LET old == llist.last.before
            new == llist.list
            n   == Cardinality(Used(old))
        IN  /\ new.end = n /\ new.reuse_head = 0
            /\ \A i \in 0..(n - 1) : new.next[i] = IF i = n - 1 THEN 0 ELSE i + 1
            /\ ValuesFromZero(new) = ValuesFromZero(old)

\* C29: after linked_list_pack the capacity is the smallest power of two not
\* below the number of used slots and is the length of the arrays; from then
\* on end <= capacity <= length of the arrays, which keeps an insert inside
\* the arrays.
C29_PackSetsCapacity ==
    /\ (llist.pc = "live" /\ llist.last.op = "pack" /\ llist.last.rc = 0) =>
          /\ llist.list.capacity = to_power_of_two(Cardinality(Used(llist.last.before)))
          /\ llist.list.capacity = llist.list.alloc
    /\ (llist.pc = "live" /\ llist.packed) =>
          /\ llist.list.end <= llist.list.capacity
          /\ llist.list.capacity <= llist.list.alloc

\* C30: when the master server has exited normally, with whatever exit
\* status, or has been killed by SIGTERM, the supervisor does not fork again:
\* its loop ends and it returns 0.
C30_NoRespawnOnExitOrTerm ==
    (super.pc \in {"fork", "returned"} /\ super.died.waited
       /\ (WIFEXITED(super.died.status) \/ super.died.status = Killed(SIGTERM, FALSE))) =>
        super.pc = "returned" /\ super.rc = 0

\* The master server died of something other than a normal exit or SIGTERM.
Abnormal(status) == ~WIFEXITED(status) /\ WTERMSIG(status) # SIGTERM

\* C31: when the master server has died abnormally and both clock readings
\* succeeded, the supervisor forks it again if it lived for at least
\* RESPAWN_TIME_LIMIT_SECONDS and returns an error without forking if it
\* lived for less; a master server that dies at once is therefore not
\* forked a second time.
C31_RespawnIfSurvived ==
    [][(super.pc = "waiting" /\ super'.died.waited /\ ~super'.time_error
          /\ Abnormal(super'.died.status)) =>
         IF super'.died.lifetime >= RESPAWN_TIME_LIMIT_SECONDS
         THEN super'.pc = "fork"
         ELSE super'.pc = "returned" /\ super'.rc # 0]_vars

----------------------------------------------------------------------------
(* mds_message_read (declared in src/src/libmdsserver/mds-message.h; its    *)
(* body follows the description of the message parser): the parser takes   *)
(* what is in its buffer as far as it goes and reads another chunk when it *)
(* needs more.  A header is kept as the characters of its line.            *)

MDS_MESSAGE_BUFFER_SIZE == 128

\* mds_message_initialise: buffer_ptr is the length of buffer.
mds_message_initialise ==
    [headers |-> <<>>, header_count |-> 0, payload |-> <<>>, payload_size |-> 0,
     payload_ptr |-> 0, buffer |-> <<>>, buffer_size |-> MDS_MESSAGE_BUFFER_SIZE,
     stage |-> 0]

LengthPrefix == <<"L", "e", "n", "g", "t", "h", ":", " ">>

HasPrefix(s, prefix) ==
    Len(s) >= Len(prefix) /\ SubSeq(s, 1, Len(prefix)) = prefix

AllDigits(s) == s # <<>> /\ \A i \in 1..Len(s) : IsDigit(s[i])

\* A header line the parser refuses: a NUL in it, or a Length that is not a
\* decimal number.
MalformedHeader(header) ==
    \/ strchr(header, NUL)
    \/ /\ HasPrefix(header, LengthPrefix)
       /\ ~AllDigits(SubSeq(header, Len(LengthPrefix) + 1, Len(header)))

\* Between two messages with what was read past the first thrown away.
reset_message_emptying(this) ==
    [this EXCEPT !.headers = <<>>, !.header_count = 0, !.payload = <<>>,
                 !.payload_size = 0, !.payload_ptr = 0, !.stage = 0,
                 !.buffer = <<>>]

\* Between two messages: the leftover bytes stay in the buffer.
reset_message(this) ==
    [this EXCEPT !.headers = <<>>, !.header_count = 0, !.payload = <<>>,
                 !.payload_size = 0, !.payload_ptr = 0, !.stage = 0]

\* The parser on its buffer: [msg, r] with r = 0 when a message is complete,
\* -2 when a header is malformed and 1 when more bytes are needed.
RECURSIVE parse_buffer(_)
parse_buffer(this) ==
    LET nl == IndexFrom(this.buffer, 1, NL)
        header == SubSeq(this.buffer, 1, nl - 1)
        after == SubSeq(this.buffer, nl + 1, Len(this.buffer))
        move == Min(Len(this.buffer), this.payload_size - this.payload_ptr)
        filled == [this EXCEPT !.payload = @ \o SubSeq(this.buffer, 1, move),
                               !.payload_ptr = @ + move,
                               !.buffer = SubSeq(@, move + 1, Len(@))]
    IN  IF this.stage = 0 /\ nl > 1
        THEN IF MalformedHeader(header)
             THEN [msg |-> this, r |-> -2]
             ELSE parse_buffer(
                    [this EXCEPT !.headers = Append(@, header),
                                 !.header_count = @ + 1,
                                 !.payload_size =
                                     IF HasPrefix(header, LengthPrefix)
                                     THEN atoll(SubSeq(header, Len(LengthPrefix) + 1,
                                                       Len(header)))
                                     ELSE @,
                                 !.buffer = after])
        ELSE IF this.stage = 0 /\ nl = 1
        THEN parse_buffer([this EXCEPT !.stage = 1, !.buffer = after])
        ELSE IF this.stage = 1
        THEN IF filled.payload_ptr = filled.payload_size
             THEN [msg |-> [filled EXCEPT !.stage = 2], r |-> 0]
             ELSE [msg |-> filled, r |-> 1]
        ELSE [msg |-> this, r |-> 1]

\* What the caller takes from a complete message.
Delivered(this) == [headers |-> this.headers, payload |-> this.payload]

(* The parser fed from a stream *)

CommandX == <<"C", "o", "m", "m", "a", "n", "d", ":", " ", "x">>
Length5 == LengthPrefix \o <<"5">>
Length2 == LengthPrefix \o <<"2">>
Length0 == LengthPrefix \o <<"0">>

\* Command: x\nLength: 5\n\nhello
HelloMessage == CommandX \o <<NL>> \o Length5 \o <<NL, NL>> \o <<"h", "e", "l", "l", "o">>
\* A message without payload, one with Length: 0, and one whose payload is
\* a newline and a character.
BareMessage == CommandX \o <<NL, NL>>
EmptyMessage == Length0 \o <<NL, NL>>
NewlineMessage == Length2 \o <<NL, NL>> \o <<NL, "x">>

WireMessages == {HelloMessage, BareMessage, EmptyMessage, NewlineMessage}

\* One or two messages one after the other.
WellFormedStreams == WireMessages \cup {a \o b : a \in WireMessages, b \in WireMessages}

\* A Length that is no number, after a message that is in order.
MalformedStreams == {LengthPrefix \o <<"x", NL, NL>>,
                     BareMessage \o LengthPrefix \o <<"x", NL, NL>>}

InitParser ==
    /\ FreshServer /\ clist = Unused /\ llist = Unused /\ super = Unused
    /\ runtime = Unused
    /\ \E stream \in WellFormedStreams \cup MalformedStreams :
         parser = [pc |-> "idle", msg |-> mds_message_initialise, stream |-> stream,
                   rest |-> stream, delivered |-> <<>>, chunk |-> <<>>,
                   held |-> <<>>, r |-> 0]

\* The parser after the buffer has been gone through.
Parsed(this, rest, chunk) ==
    LET p == parse_buffer(this) IN
    [parser EXCEPT !.msg = p.msg, !.rest = rest, !.chunk = chunk,
                   !.held = this.payload,
                   !.r = IF p.r = 1 THEN @ ELSE p.r,
                   !.pc = CASE p.r = 0 -> "idle"
                            [] p.r = 1 -> "reading"
                            [] OTHER -> "malformed",
                   !.delivered = IF p.r = 0 THEN Append(@, Delivered(p.msg)) ELSE @]

ParserUnchanged ==
    UNCHANGED <<pc, reg_table, table_alive, message_id, connected, errno, received,
                msg_alive, ra, mutex, r, rc, reexecing, terminating, sent, hist,
                reg_cond, other, clist, llist, super, runtime>>

\* mds_message_read is called: a message that was complete is cleared away
\* and the bytes in the buffer are taken before anything is read.
MessageReadCall ==
    /\ parser.pc = "idle"
    /\ parser.rest # <<>> \/ parser.msg.buffer # <<>>
    /\ parser' = Parsed(IF parser.msg.stage = 2 THEN reset_message(parser.msg)
                        ELSE parser.msg,
                        parser.rest, <<>>)
    /\ ParserUnchanged

\* The read in mds_message_read returns n bytes, no more than the free tail
\* of the buffer, which is doubled first when it is full.
MessageReadChunk(n) ==
    /\ parser.pc = "reading"
    /\ LET this == parser.msg
           size == IF Len(this.buffer) = this.buffer_size
                   THEN this.buffer_size * 2 ELSE this.buffer_size
           chunk == SubSeq(parser.rest, 1, n)
       IN  /\ n \in 1..Min(Len(parser.rest), size - Len(this.buffer))
           /\ parser' = Parsed([this EXCEPT !.buffer = @ \o chunk, !.buffer_size = size],
                               SubSeq(parser.rest, n + 1, Len(parser.rest)), chunk)
    /\ ParserUnchanged

\* The read is interrupted by a signal: mds_message_read returns -1 with
\* what it has got so far in place.
MessageReadInterrupted ==
    /\ parser.pc = "reading"
    /\ parser.r # -1
    /\ parser' = [parser EXCEPT !.pc = "idle", !.r = -1]
    /\ ParserUnchanged

NextParser ==
    \/ MessageReadCall
    \/ \E n \in 1..Len(HelloMessage \o HelloMessage) : MessageReadChunk(n)
    \/ MessageReadInterrupted

SpecParser == InitParser /\ [][NextParser]_vars

\* What successive calls deliver when the whole of stream is in the buffer.
RECURSIVE DeliveredFrom(_)
DeliveredFrom(this) ==
    LET p == parse_buffer(this) IN
    IF p.r = 0
    THEN <<Delivered(p.msg)>> \o DeliveredFrom(reset_message(p.msg))
    ELSE <<>>

InOneChunk(stream) ==
    DeliveredFrom([mds_message_initialise EXCEPT !.buffer = stream])

IsPrefix(s, t) == Len(s) <= Len(t) /\ SubSeq(t, 1, Len(s)) = s

\* C33: for a well-formed stream the messages delivered do not depend on
\* where the reads cut it: whatever the chunks, what has been delivered is
\* the beginning of what the stream delivers when it arrives in one chunk,
\* and all of it once the stream has been read to its end; no read of such a
\* stream is refused as malformed.
C33_ChunkingIndependent ==
    (parser.pc # "unused" /\ parser.stream \in WellFormedStreams) =>
        /\ parser.pc # "malformed"
        /\ IsPrefix(parser.delivered, InOneChunk(parser.stream))
        /\ (parser.rest = <<>> /\ parser.pc = "reading") =>
               parser.delivered = InOneChunk(parser.stream)

\* Command: x\nLength: 5\n\nhel was read, then lo: one message, payload hello.
C33_HelloInTwoChunks ==
    /\ parser.pc = "idle" /\ parser.stream = HelloMessage /\ parser.rest = <<>>
    /\ parser.held = <<"h", "e", "l">> /\ parser.chunk = <<"l", "o">>
    /\ parser.delivered = <<[headers |-> <<CommandX, Length5>>,
                             payload |-> <<"h", "e", "l", "l", "o">>]>>

----------------------------------------------------------------------------
(* The loop of registry_action.                                             *)

\* Zero-based position at which the i-th line of payload begins; the length
\* of payload for the line after the last.
RECURSIVE LineStart(_, _)
LineStart(payload, i) ==
    IF i = 1 THEN 0 ELSE IndexFrom(payload, LineStart(payload, i - 1) + 1, NL)

\* k >= 1 command names, not empty, each followed by a newline.
NewlineTerminated(payload) ==
    /\ payload # <<>> /\ payload[Len(payload)] = NL
    /\ \A i \in 1..Len(Lines(payload)) : Lines(payload)[i] # <<>>

\* C34: for a payload of k command names, each terminated by a newline, and
\* a Length that is the size of the payload, the i-th turn of the loop of
\* registry_action begins at the i-th name, passes that name whole to
\* registry_action_act and, when the action succeeded, leaves begin at the
\* next name, or at the end after the k-th; so the action is applied to the
\* k names, each once, in payload order, and to nothing else.
C34_EachNameOnce ==
    [][((\E alloc_ok \in BOOLEAN : RegistryActionTurn(alloc_ok))
          /\ NewlineTerminated(hist.payload) /\ ra.length = Len(hist.payload)) =>
         \E i \in 1..Len(Lines(hist.payload)) :
             /\ ra.begin = LineStart(hist.payload, i)
             /\ hist'.act.command = Lines(hist.payload)[i]
             /\ hist'.act.rc = 0 =>
                    /\ pc' = "acting"
                    /\ ra'.begin = LineStart(hist.payload, i + 1)]_vars

\* C35: every turn of the loop of registry_action that goes on to another
\* leaves begin greater than it was and not beyond what the payload buffer
\* holds, so the loop is over after at most length turns and the mutex is
\* released.
C35_BeginIncreases ==
    [][((\E alloc_ok \in BOOLEAN : RegistryActionTurn(alloc_ok)) /\ pc' = "acting") =>
         ra'.begin > ra.begin /\ ra'.begin <= ra.length + 1]_vars

----------------------------------------------------------------------------
(* The registry table after unmarshal_server.                               *)

\* C36: when the server has been restored by unmarshal_server, every command
\* in reg_table is found by a lookup of its name, and at no time does
\* reg_table hold two live keys that are equal strings.
C36_RestoredFound ==
    /\ [][(hist'.reexecs > hist.reexecs /\ pc' = "loop") =>
            \A i \in 1..Len(reg_table') :
                hash_table_get_entry(reg_table', reg_table'[i].key) = i]_vars
    /\ [](table_alive =>
            \A i, j \in 1..Len(reg_table) :
                (i # j /\ reg_table[i].key_live /\ reg_table[j].key_live) =>
                    reg_table[i].key # reg_table[j].key)

----------------------------------------------------------------------------
(* handle_close_message on a message with several `Client closed: ' headers. *)

\* Every entry is reached by a lookup of its key.
AllFound(table) ==
    \A i \in 1..Len(table) : hash_table_get_entry(table, table[i].key) = i

\* C37: when a message with two or more `Client closed: ' headers is handled
\* on a registry whose entries are all live and found by lookup, the second
\* loop of handle_close_message finds every key it was given, so the
\* handler returns, and when it returns 0 every list that became empty has
\* been taken out, once, and no other.
C37_SeveralClosedHeaders ==
    [][((\E m \in OtherMessages, fail_at \in 0..MaxCloseAllocations,
            shrink_ok \in BOOLEAN : ReadOther(m, fail_at, shrink_ok))
          /\ Len(ClosedClients(received'.headers, 1)) >= 2
          /\ WellFormed(reg_table) /\ AllFound(reg_table)) =>
         /\ pc' = "returned"
         /\ r' = 0 =>
              /\ WellFormed(reg_table') /\ AllFound(reg_table')
              /\ \A i \in 1..Len(reg_table) :
                   LET left == Without(Without(reg_table[i].list.clients,
                                               ClosedClients(received'.headers, 1)[1]),
                                       ClosedClients(received'.headers, 1)[2])
                   IN  left # <<>> =>
                         \E j \in 1..Len(reg_table') :
                             reg_table'[j].key = reg_table[i].key]_vars

----------------------------------------------------------------------------
(* Signals that arrive while a message is being read or handled.            *)

\* A signal sets one of the two flags after the loop condition has been
\* evaluated: the read it found pending has returned a message, which is
\* being handled.  Nothing but the loop condition reads the flags, so
\* it makes no difference at what point before the next evaluation the
\* flag is set.
SignalPending(flag) ==
    /\ pc \in {"acting", "returned"}
    /\ IF flag = "reexecing"
       THEN reexecing' = TRUE /\ UNCHANGED terminating
       ELSE terminating' = TRUE /\ UNCHANGED reexecing
    /\ ~(IF flag = "reexecing" THEN reexecing ELSE terminating)
    /\ UNCHANGED <<pc, reg_table, table_alive, message_id, connected, errno, received,
                   msg_alive, ra, mutex, r, rc, sent, hist, reg_cond, other>>
    /\ UNCHANGED lib

NextShutdown ==
    \/ Next
    \/ \E flag \in {"reexecing", "terminating"} : SignalPending(flag)

SpecShutdown == Init /\ [][NextShutdown]_vars

\* C38: once reexecing or terminating is set, the next evaluation of the
\* loop condition ends the loop: from the top of the loop no message is read
\* and nothing is dispatched any more, the only step the server takes there
\* is to leave master_loop; the message that was being handled when the flag
\* was set is the last.
C38_NoReadOnceFlagged ==
    [][((reexecing \/ terminating) /\ pc = "loop") =>
         /\ received' = received /\ hist' = hist /\ errno' = errno
         /\ reg_table' = reg_table \/ ~table_alive'
         /\ pc' # "loop" => (pc' \in {"exited", "crashed"} /\ rc' = 0)]_vars

\* A flag was set while a message was being handled, and the handler has
\* returned.
C38_FlaggedWhileHandling ==
    /\ pc = "returned" /\ r = 0 /\ hist.handler = "close"
    /\ terminating /\ ~reexecing

----------------------------------------------------------------------------
(* main (src/src/mds.c): the supervisor picks a display index by going      *)
(* through the PID files of the runtime directory.  Each system call is a  *)
(* step of its own, so that two supervisors can interleave.                *)

DISPLAY_MAX == 3

\* The process a stale PID file names, a process that is alive and is no
\* supervisor, and the supervisors.
StalePid == 7
OtherPid == 8
SupervisorPid(s) == 10 + s

Supervisors == {1, 2}

Absent == [exists |-> FALSE, data |-> <<>>]
File(data) == [exists |-> TRUE, data |-> data]

\* snprintf(piddata, ..., "%u\n", getpid())
PidData(pid) == Decimal(pid) \o <<NL>>

\* The loop over piddata after fread has returned data with end-of-file set.
\* An empty file gives n = (size_t)-1 and a scan of what the array held.
RECURSIVE PidFrom(_, _, _, _)
PidFrom(piddata, i, n, pid) ==
    IF i > n THEN pid
    ELSE IF ~IsDigit(piddata[i]) THEN -1
    ELSE PidFrom(piddata, i + 1, n, pid * 10 + DigitVal(piddata[i]))

ParsePidFile(piddata) ==
    LET n == Len(piddata) - 1
        pid == PidFrom(piddata, 1, n, 0)
    IN  IF piddata = <<>> THEN [outcome |-> "undefined", pid |-> 0]
        ELSE IF pid = -1 \/ piddata[n + 1] # NL THEN [outcome |-> "invalid", pid |-> 0]
        ELSE [outcome |-> "pid", pid |-> pid]

\* kill(pid, 0) does not fail with ESRCH.
Allocated(pid) ==
    \/ pid = OtherPid
    \/ \E s \in Supervisors :
          /\ pid = SupervisorPid(s)
          /\ runtime.sup[s].pc \notin {"none", "returned", "crashed"}

\* What a PID file may hold when the supervisors start.
InitialFiles ==
    {Absent, File(PidData(StalePid)), File(PidData(OtherPid)), File(<<"x", NL>>)}

InitRuntime ==
    /\ FreshServer /\ clist = Unused /\ llist = Unused /\ super = Unused
    /\ parser = Unused
    /\ \E files \in [0..(DISPLAY_MAX - 1) -> InitialFiles],
          started \in {{1}, Supervisors} :
         runtime = [pc |-> "selecting", files |-> files, initial |-> files,
                    sup |-> [s \in Supervisors |->
                               [pc |-> IF s \in started THEN "open" ELSE "none",
                                display |-> 0, rc |-> -1, io_error |-> FALSE]]]

RuntimeUnchanged ==
    UNCHANGED <<pc, reg_table, table_alive, message_id, connected, errno, received,
                msg_alive, ra, mutex, r, rc, reexecing, terminating, sent, hist,
                reg_cond, other, clist, llist, super, parser>>

\* open(pathname, O_CREAT | O_EXCL): creates the file when there is none, and
\* the index is taken; fails when there is one.
SelectOpen(s) ==
    /\ runtime.pc = "selecting"
    /\ LET me == runtime.sup[s] IN
       /\ me.pc = "open" /\ me.display < DISPLAY_MAX
       /\ runtime' =
            IF ~runtime.files[me.display].exists
            THEN [runtime EXCEPT !.files[me.display] = File(<<>>),
                                 !.sup[s].pc = "create"]
            ELSE [runtime EXCEPT !.sup[s].pc = "fopen"]
    /\ RuntimeUnchanged

\* display == DISPLAY_MAX: too many displays.
SelectNone(s) ==
    /\ runtime.pc = "selecting"
    /\ runtime.sup[s].pc = "open" /\ runtime.sup[s].display = DISPLAY_MAX
    /\ runtime' = [runtime EXCEPT !.sup[s].pc = "returned", !.sup[s].rc = 1]
    /\ RuntimeUnchanged

\* fopen(pathname, "r"), fread, the check of the content and kill(pid, 0):
\* the index is taken when the file names a process that does not exist,
\* and the next index is tried otherwise.
SelectRead(s, fopen_ok, fread_ok, undefined) ==
    /\ runtime.pc = "selecting"
    /\ LET me == runtime.sup[s]
           file == runtime.files[me.display]
           parsed == ParsePidFile(file.data)
           next == [runtime EXCEPT !.sup[s].pc = "open",
                                   !.sup[s].display = me.display + 1,
                                   !.sup[s].io_error =
                                       @ \/ (file.exists /\ ~(fopen_ok /\ fread_ok))]
       IN
       /\ me.pc = "fopen"
       /\ undefined \in (IF file.exists /\ fopen_ok /\ fread_ok
                            /\ parsed.outcome = "undefined"
                         THEN {"invalid", "crash"} ELSE {"none"})
       /\ runtime' =
            IF ~file.exists \/ ~fopen_ok \/ ~fread_ok THEN next
            ELSE IF undefined = "crash" THEN [runtime EXCEPT !.sup[s].pc = "crashed"]
            ELSE IF parsed.outcome = "pid" /\ ~Allocated(parsed.pid)
            THEN [runtime EXCEPT !.sup[s].pc = "create"]
            ELSE next
    /\ RuntimeUnchanged

\* fopen(pathname, "w") on the index taken: the file is there and empty.
SelectCreate(s, fopen_ok) ==
    /\ runtime.pc = "selecting"
    /\ LET me == runtime.sup[s] IN
       /\ me.pc = "create"
       /\ runtime' =
            IF fopen_ok
            THEN [runtime EXCEPT !.files[me.display] = File(<<>>), !.sup[s].pc = "write"]
            ELSE [runtime EXCEPT !.sup[s].pc = "returned", !.sup[s].rc = 1,
                                 !.sup[s].io_error = TRUE]
    /\ RuntimeUnchanged

\* fwrite and fflush of the supervisor's PID; the file is unlinked when the
\* write falls short.
SelectWrite(s, fwrite_ok) ==
    /\ runtime.pc = "selecting"
    /\ LET me == runtime.sup[s] IN
       /\ me.pc = "write"
       /\ runtime' =
            IF fwrite_ok
            THEN [runtime EXCEPT !.files[me.display] = File(PidData(SupervisorPid(s))),
                                 !.sup[s].pc = "selected"]
            ELSE [runtime EXCEPT !.files[me.display] = Absent,
                                 !.sup[s].pc = "returned", !.sup[s].rc = -1,
                                 !.sup[s].io_error = TRUE]
    /\ RuntimeUnchanged

NextRuntime ==
    \/ \E s \in Supervisors : SelectOpen(s)
    \/ \E s \in Supervisors : SelectNone(s)
    \/ \E s \in Supervisors, fopen_ok \in BOOLEAN, fread_ok \in BOOLEAN,
          undefined \in {"none", "invalid", "crash"} :
          SelectRead(s, fopen_ok, fread_ok, undefined)
    \/ \E s \in Supervisors, fopen_ok \in BOOLEAN : SelectCreate(s, fopen_ok)
    \/ \E s \in Supervisors, fwrite_ok \in BOOLEAN : SelectWrite(s, fwrite_ok)

SpecRuntime == InitRuntime /\ [][NextRuntime]_vars

\* The supervisor has left the loop over the indices with one in hand.
Selected(s) == runtime.sup[s].pc \in {"create", "write", "selected"}

\* The PID file of index d was absent or named a process that does not exist.
Free(files, d) ==
    \/ ~files[d].exists
    \/ /\ ParsePidFile(files[d].data).outcome = "pid"
       /\ ParsePidFile(files[d].data).pid = StalePid

\* C39: two supervisors that go through the runtime directory at the same
\* time never have the same display index in hand, and a supervisor that is
\* alone, and whose reads of the PID files did not fail, selects the lowest
\* index whose PID file was absent or named a process that does not exist.
C39_DistinctDisplays ==
    runtime.pc = "selecting" =>
        /\ (Selected(1) /\ Selected(2)) =>
               runtime.sup[1].display # runtime.sup[2].display
        /\ (Selected(1) /\ runtime.sup[2].pc = "none" /\ ~runtime.sup[1].io_error) =>
               /\ Free(runtime.initial, runtime.sup[1].display)
               /\ \A d \in 0..(runtime.sup[1].display - 1) : ~Free(runtime.initial, d)

====
